---- MODULE Spec2Model ----
(***************************************************************************)
(* Clinical Rosetta Stone: the resolution engine (auto_resolver.py,        *)
(* class AutoResolver) and its learned_mapping table.                      *)
(*                                                                         *)
(* Strings are sequences of one-character strings.  A confidence is an     *)
(* exact rational <<numerator, denominator>> in lowest terms; the          *)
(* thresholds and factors of the source (0.6, 0.9, 0.85, ...) are the      *)
(* rationals they denote.                                                  *)
(***************************************************************************)
EXTENDS Integers, Sequences, FiniteSets, TLC

(***************************************************************************)
(* Bounds of the model.                                                    *)
(***************************************************************************)
MaxTimes == 2
MaxClock == 1

(***************************************************************************)
(* Rationals.                                                              *)
(***************************************************************************)
RECURSIVE GCD(_, _)
GCD(a, b) ==
  IF b = 0 THEN a ELSE GCD(b, a % b)

Rat(n, d) ==
  LET g == GCD(n, d) IN <<n \div g, d \div g>>

RLeq(x, y) ==
  x[1] * y[2] <= y[1] * x[2]

RLt(x, y) ==
  x[1] * y[2] < y[1] * x[2]

RAdd(x, y) ==
  Rat(x[1] * y[2] + y[1] * x[2], x[2] * y[2])

RMul(x, y) ==
  Rat(x[1] * y[1], x[2] * y[2])

RMin(x, y) ==
  IF RLeq(x, y) THEN x ELSE y

RMax(x, y) ==
  IF RLeq(y, x) THEN x ELSE y

(***************************************************************************)
(* Characters.                                                             *)
(***************************************************************************)
UpperCase ==
  <<"A", "B", "C", "D", "E", "F", "G", "H", "I", "J", "K", "L", "M", "N", "O", "P", "Q", "R", "S", "T", "U", "V", "W", "X", "Y", "Z">>

LowerCase ==
  <<"a", "b", "c", "d", "e", "f", "g", "h", "i", "j", "k", "l", "m", "n", "o", "p", "q", "r", "s", "t", "u", "v", "w", "x", "y", "z">>

Whitespace ==
  {" ", "\t", "\n", "\r", "\f"}

Punctuation ==
  {",", ".", "?", "!", ":", ";", "(", ")", "[", "]", "\"", "'"}

LowerChar(c) ==
  IF \E i \in 1..Len(UpperCase) : UpperCase[i] = c
    THEN LowerCase[CHOOSE i \in 1..Len(UpperCase) : UpperCase[i] = c]
    ELSE c

Lower(s) ==
  [i \in 1..Len(s) |-> LowerChar(s[i])]

RECURSIVE LStrip(_)
LStrip(s) ==
  IF s # <<>> /\ Head(s) \in Whitespace THEN LStrip(Tail(s)) ELSE s

RECURSIVE RStrip(_)
RStrip(s) ==
  IF s # <<>> /\ s[Len(s)] \in Whitespace
    THEN RStrip(SubSeq(s, 1, Len(s) - 1))
    ELSE s

Strip(s) ==
  RStrip(LStrip(s))

RECURSIVE DropWhile(_, _)
DropWhile(s, class) ==
  IF s # <<>> /\ Head(s) \in class THEN DropWhile(Tail(s), class) ELSE s

\* re.sub(class+, ' ', s): every maximal run of characters of the class
\* becomes one space
RECURSIVE SubRuns(_, _)
SubRuns(s, class) ==
  IF s = <<>> THEN <<>>
  ELSE IF Head(s) \in class
    THEN <<" ">> \o SubRuns(DropWhile(s, class), class)
    ELSE <<Head(s)>> \o SubRuns(Tail(s), class)

\* normalize without the strip that follows the whitespace substitution
normalize_unstripped(text) ==
  LET lowered == Strip(Lower(text))
      nopunct == SubRuns(lowered, Punctuation)
  IN  SubRuns(nopunct, Whitespace)

normalize(text) ==
  LET lowered == Strip(Lower(text))
      nopunct == SubRuns(lowered, Punctuation)
  IN  Strip(SubRuns(nopunct, Whitespace))

(***************************************************************************)
(* Abbreviation expansion.                                                 *)
(***************************************************************************)
EXPANSIONS ==
  << <<<<"a", "u", "t", "o">>,
       <<"a", "u", "t", "o", "m", "a", "t", "e", "d">>>>,
     <<<<"a", "b", "s">>,
       <<"a", "b", "s", "o", "l", "u", "t", "e">>>>,
     <<<<"c", "a", "l", "c">>,
       <<"c", "a", "l", "c", "u", "l", "a", "t", "e", "d">>>>,
     <<<<"s", "c", "r">>,
       <<"s", "c", "r", "e", "e", "n">>>>,
     <<<<"s", "c", "r", "n">>,
       <<"s", "c", "r", "e", "e", "n">>>>,
     <<<<"l", "v", "l">>,
       <<"l", "e", "v", "e", "l">>>>,
     <<<<"t", "o", "t">>,
       <<"t", "o", "t", "a", "l">>>>,
     <<<<"d", "i", "r">>,
       <<"d", "i", "r", "e", "c", "t">>>>,
     <<<<"i", "n", "d">>,
       <<"i", "n", "d", "i", "r", "e", "c", "t">>>>,
     <<<<"e", "s", "t">>,
       <<"e", "s", "t", "e", "r", "a", "s", "e">>>>,
     <<<<"p", "h", "o", "s">>,
       <<"p", "h", "o", "s", "p", "h", "a", "t", "a", "s", "e">>>>,
     <<<<"b", "i", "l", "i">>,
       <<"b", "i", "l", "i", "r", "u", "b", "i", "n">>>>,
     <<<<"c", "r", "e", "a", "t">>,
       <<"c", "r", "e", "a", "t", "i", "n", "i", "n", "e">>>>,
     <<<<"g", "l", "u", "c">>,
       <<"g", "l", "u", "c", "o", "s", "e">>>>,
     <<<<"c", "h", "o", "l">>,
       <<"c", "h", "o", "l", "e", "s", "t", "e", "r", "o", "l">>>>,
     <<<<"t", "r", "i", "g">>,
       <<"t", "r", "i", "g", "l", "y", "c", "e", "r", "i", "d", "e", "s">>>>,
     <<<<"h", "g", "b">>,
       <<"h", "e", "m", "o", "g", "l", "o", "b", "i", "n">>>>,
     <<<<"h", "c", "t">>,
       <<"h", "e", "m", "a", "t", "o", "c", "r", "i", "t">>>>,
     <<<<"p", "l", "t">>,
       <<"p", "l", "a", "t", "e", "l", "e", "t">>>>,
     <<<<"w", "b", "c">>,
       <<"w", "h", "i", "t", "e", " ", "b", "l", "o", "o", "d", " ", "c", "e", "l", "l">>>>,
     <<<<"r", "b", "c">>,
       <<"r", "e", "d", " ", "b", "l", "o", "o", "d", " ", "c", "e", "l", "l">>>>,
     <<<<"n", "e", "u", "t">>,
       <<"n", "e", "u", "t", "r", "o", "p", "h", "i", "l">>>>,
     <<<<"l", "y", "m", "p", "h">>,
       <<"l", "y", "m", "p", "h", "o", "c", "y", "t", "e">>>>,
     <<<<"m", "o", "n", "o">>,
       <<"m", "o", "n", "o", "c", "y", "t", "e">>>>,
     <<<<"e", "o", "s">>,
       <<"e", "o", "s", "i", "n", "o", "p", "h", "i", "l">>>>,
     <<<<"b", "a", "s", "o">>,
       <<"b", "a", "s", "o", "p", "h", "i", "l">>>>,
     <<<<"s", "e", "g">>,
       <<"s", "e", "g", "m", "e", "n", "t", "e", "d">>>>,
     <<<<"i", "m", "m">>,
       <<"i", "m", "m", "a", "t", "u", "r", "e">>>>,
     <<<<"g", "r", "a", "n">>,
       <<"g", "r", "a", "n", "u", "l", "o", "c", "y", "t", "e">>>>,
     <<<<"u", "a">>,
       <<"u", "r", "i", "n", "e">>>>,
     <<<<"u", "r">>,
       <<"u", "r", "i", "n", "e">>>>,
     <<<<"s", "e", "r">>,
       <<"s", "e", "r", "u", "m">>>>,
     <<<<"p", "l", "a", "s">>,
       <<"p", "l", "a", "s", "m", "a">>>>,
     <<<<"s", "p", "e", "c">>,
       <<"s", "p", "e", "c", "i", "f", "i", "c">>>>,
     <<<<"g", "r", "a", "v">>,
       <<"g", "r", "a", "v", "i", "t", "y">>>>,
     <<<<"s", "g">>,
       <<"s", "p", "e", "c", "i", "f", "i", "c", " ", "g", "r", "a", "v", "i", "t", "y">>>>,
     <<<<"l", "e">>,
       <<"l", "e", "u", "k", "o", "c", "y", "t", "e", " ", "e", "s", "t", "e", "r", "a", "s", "e">>>>,
     <<<<"a", "l", "b">>,
       <<"a", "l", "b", "u", "m", "i", "n">>>>,
     <<<<"g", "l", "o", "b">>,
       <<"g", "l", "o", "b", "u", "l", "i", "n">>>>,
     <<<<"a", "l", "k">>,
       <<"a", "l", "k", "a", "l", "i", "n", "e">>>>,
     <<<<"t", "p">>,
       <<"t", "o", "t", "a", "l", " ", "p", "r", "o", "t", "e", "i", "n">>>>,
     <<<<"t", "b", "i", "l", "i">>,
       <<"t", "o", "t", "a", "l", " ", "b", "i", "l", "i", "r", "u", "b", "i", "n">>>>,
     <<<<"d", "b", "i", "l", "i">>,
       <<"d", "i", "r", "e", "c", "t", " ", "b", "i", "l", "i", "r", "u", "b", "i", "n">>>>,
     <<<<"a", "s", "t">>,
       <<"a", "s", "p", "a", "r", "t", "a", "t", "e", " ", "a", "m", "i", "n", "o", "t", "r", "a", "n", "s", "f", "e", "r", "a", "s", "e">>>>,
     <<<<"a", "l", "t">>,
       <<"a", "l", "a", "n", "i", "n", "e", " ", "a", "m", "i", "n", "o", "t", "r", "a", "n", "s", "f", "e", "r", "a", "s", "e">>>>,
     <<<<"g", "g", "t">>,
       <<"g", "a", "m", "m", "a", " ", "g", "l", "u", "t", "a", "m", "y", "l", " ", "t", "r", "a", "n", "s", "f", "e", "r", "a", "s", "e">>>>,
     <<<<"l", "d", "h">>,
       <<"l", "a", "c", "t", "a", "t", "e", " ", "d", "e", "h", "y", "d", "r", "o", "g", "e", "n", "a", "s", "e">>>>,
     <<<<"c", "k">>,
       <<"c", "r", "e", "a", "t", "i", "n", "e", " ", "k", "i", "n", "a", "s", "e">>>>,
     <<<<"c", "p", "k">>,
       <<"c", "r", "e", "a", "t", "i", "n", "e", " ", "k", "i", "n", "a", "s", "e">>>>,
     <<<<"b", "n", "p">>,
       <<"n", "a", "t", "r", "i", "u", "r", "e", "t", "i", "c", " ", "p", "e", "p", "t", "i", "d", "e">>>>,
     <<<<"t", "s", "h">>,
       <<"t", "h", "y", "r", "o", "i", "d", " ", "s", "t", "i", "m", "u", "l", "a", "t", "i", "n", "g", " ", "h", "o", "r", "m", "o", "n", "e">>>>,
     <<<<"f", "t", "4">>,
       <<"f", "r", "e", "e", " ", "t", "4">>>>,
     <<<<"f", "t", "3">>,
       <<"f", "r", "e", "e", " ", "t", "3">>>>,
     <<<<"p", "s", "a">>,
       <<"p", "r", "o", "s", "t", "a", "t", "e", " ", "s", "p", "e", "c", "i", "f", "i", "c", " ", "a", "n", "t", "i", "g", "e", "n">>>>,
     <<<<"h", "b", "a", "1", "c">>,
       <<"h", "e", "m", "o", "g", "l", "o", "b", "i", "n", " ", "a", "1", "c">>>>,
     <<<<"a", "1", "c">>,
       <<"h", "e", "m", "o", "g", "l", "o", "b", "i", "n", " ", "a", "1", "c">>>>,
     <<<<"e", "g", "f", "r">>,
       <<"g", "l", "o", "m", "e", "r", "u", "l", "a", "r", " ", "f", "i", "l", "t", "r", "a", "t", "i", "o", "n", " ", "r", "a", "t", "e">>>>,
     <<<<"g", "f", "r">>,
       <<"g", "l", "o", "m", "e", "r", "u", "l", "a", "r", " ", "f", "i", "l", "t", "r", "a", "t", "i", "o", "n", " ", "r", "a", "t", "e">>>>,
     <<<<"i", "n", "r">>,
       <<"i", "n", "t", "e", "r", "n", "a", "t", "i", "o", "n", "a", "l", " ", "n", "o", "r", "m", "a", "l", "i", "z", "e", "d", " ", "r", "a", "t", "i", "o">>>>,
     <<<<"p", "t">>,
       <<"p", "r", "o", "t", "h", "r", "o", "m", "b", "i", "n", " ", "t", "i", "m", "e">>>>,
     <<<<"p", "t", "t">>,
       <<"p", "a", "r", "t", "i", "a", "l", " ", "t", "h", "r", "o", "m", "b", "o", "p", "l", "a", "s", "t", "i", "n", " ", "t", "i", "m", "e">>>>,
     <<<<"a", "p", "t", "t">>,
       <<"a", "c", "t", "i", "v", "a", "t", "e", "d", " ", "p", "a", "r", "t", "i", "a", "l", " ", "t", "h", "r", "o", "m", "b", "o", "p", "l", "a", "s", "t", "i", "n", " ", "t", "i", "m", "e">>>>,
     <<<<"e", "s", "r">>,
       <<"e", "r", "y", "t", "h", "r", "o", "c", "y", "t", "e", " ", "s", "e", "d", "i", "m", "e", "n", "t", "a", "t", "i", "o", "n", " ", "r", "a", "t", "e">>>>,
     <<<<"c", "r", "p">>,
       <<"c", "-", "r", "e", "a", "c", "t", "i", "v", "e", " ", "p", "r", "o", "t", "e", "i", "n">>>>,
     <<<<"r", "f">>,
       <<"r", "h", "e", "u", "m", "a", "t", "o", "i", "d", " ", "f", "a", "c", "t", "o", "r">>>>,
     <<<<"a", "n", "a">>,
       <<"a", "n", "t", "i", "n", "u", "c", "l", "e", "a", "r", " ", "a", "n", "t", "i", "b", "o", "d", "y">>>>,
     <<<<"h", "i", "v">>,
       <<"h", "u", "m", "a", "n", " ", "i", "m", "m", "u", "n", "o", "d", "e", "f", "i", "c", "i", "e", "n", "c", "y", " ", "v", "i", "r", "u", "s">>>>,
     <<<<"h", "e", "p">>,
       <<"h", "e", "p", "a", "t", "i", "t", "i", "s">>>>,
     <<<<"h", "b", "s", "a", "g">>,
       <<"h", "e", "p", "a", "t", "i", "t", "i", "s", " ", "b", " ", "s", "u", "r", "f", "a", "c", "e", " ", "a", "n", "t", "i", "g", "e", "n">>>>,
     <<<<"t", "h", "c">>,
       <<"c", "a", "n", "n", "a", "b", "i", "n", "o", "i", "d">>>>,
     <<<<"p", "c", "p">>,
       <<"p", "h", "e", "n", "c", "y", "c", "l", "i", "d", "i", "n", "e">>>>,
     <<<<"a", "m", "p", "h">>,
       <<"a", "m", "p", "h", "e", "t", "a", "m", "i", "n", "e">>>>,
     <<<<"b", "a", "r", "b">>,
       <<"b", "a", "r", "b", "i", "t", "u", "r", "a", "t", "e">>>>,
     <<<<"b", "e", "n", "z", "o">>,
       <<"b", "e", "n", "z", "o", "d", "i", "a", "z", "e", "p", "i", "n", "e">>>>,
     <<<<"b", "e", "n", "z", "o", "d", "i", "a">>,
       <<"b", "e", "n", "z", "o", "d", "i", "a", "z", "e", "p", "i", "n", "e">>>>,
     <<<<"e", "t", "o", "h">>,
       <<"e", "t", "h", "a", "n", "o", "l">>>> >>

RECURSIVE TakeWord(_)
TakeWord(s) ==
  IF s = <<>> \/ Head(s) \in Whitespace THEN <<>>
  ELSE <<Head(s)>> \o TakeWord(Tail(s))

\* str.split(): the maximal runs of non-whitespace characters
RECURSIVE Split(_)
Split(s) ==
  LET t == LStrip(s)
  IN  IF t = <<>> THEN <<>>
      ELSE LET w == TakeWord(t)
           IN  <<w>> \o Split(SubSeq(t, Len(w) + 1, Len(t)))

RECURSIVE Join(_)
Join(words) ==
  IF words = <<>> THEN <<>>
  ELSE IF Len(words) = 1 THEN words[1]
  ELSE words[1] \o <<" ">> \o Join(Tail(words))

\* dict.get(key, default) on a dict held as a sequence of <<key, value>>
DictGet(dict, key, default) ==
  IF \E i \in 1..Len(dict) : dict[i][1] = key
    THEN dict[CHOOSE i \in 1..Len(dict) : dict[i][1] = key][2]
    ELSE default

\* self.EXPANSIONS.get(w, w)
ExpandWord(word) ==
  DictGet(EXPANSIONS, word, word)

expand_abbreviations(text) ==
  LET words == Split(text)
  IN  Join([i \in 1..Len(words) |-> ExpandWord(words[i])])

(***************************************************************************)
(* difflib.SequenceMatcher(None, a, b).ratio() for strings shorter than    *)
(* 200 characters (no junk, no "popular" elements).  Positions are         *)
(* 0-based and ranges half-open, as in difflib.                            *)
(***************************************************************************)
RECURSIVE CommonLen(_, _, _, _, _, _)
CommonLen(a, b, i, j, ahi, bhi) ==
  IF i < ahi /\ j < bhi /\ a[i + 1] = b[j + 1]
    THEN 1 + CommonLen(a, b, i + 1, j + 1, ahi, bhi)
    ELSE 0

SetMax(S) ==
  CHOOSE x \in S : \A y \in S : y <= x

SetMin(S) ==
  CHOOSE x \in S : \A y \in S : x <= y

\* the longest matching block in a[alo:ahi], b[blo:bhi]; of the longest
\* blocks the one starting earliest in a, and of those the one starting
\* earliest in b
LongestBlock(size, alo, blo) ==
  LET bestsize == SetMax({0} \cup {size[p] : p \in DOMAIN size})
  IN  IF bestsize = 0 THEN <<alo, blo, 0>>
      ELSE LET besti == SetMin({p[1] : p \in {q \in DOMAIN size : size[q] = bestsize}})
               bestj == SetMin({p[2] : p \in {q \in DOMAIN size :
                                                 q[1] = besti /\ size[q] = bestsize}})
           IN  <<besti, bestj, bestsize>>

find_longest_match(a, b, alo, ahi, blo, bhi) ==
  LongestBlock([p \in (alo..(ahi - 1)) \X (blo..(bhi - 1)) |->
                  CommonLen(a, b, p[1], p[2], ahi, bhi)],
               alo, blo)

RECURSIVE matches(_, _, _, _, _, _)

\* the block m = <<i, j, k>> and the blocks to its left and to its right
BlocksAround(a, b, alo, ahi, blo, bhi, m) ==
  LET i == m[1]
      j == m[2]
      k == m[3]
  IN  IF k = 0 THEN 0
      ELSE k
           + (IF alo < i /\ blo < j THEN matches(a, b, alo, i, blo, j) ELSE 0)
           + (IF i + k < ahi /\ j + k < bhi
                THEN matches(a, b, i + k, ahi, j + k, bhi) ELSE 0)

\* sum of the sizes of get_matching_blocks()
matches(a, b, alo, ahi, blo, bhi) ==
  BlocksAround(a, b, alo, ahi, blo, bhi, find_longest_match(a, b, alo, ahi, blo, bhi))

ratio(a, b) ==
  LET length == Len(a) + Len(b)
  IN  IF length = 0 THEN <<1, 1>>
      ELSE Rat(2 * matches(a, b, 0, Len(a), 0, Len(b)), length)

similarity(a, b) ==
  ratio(Lower(a), Lower(b))

\* substring test behind the SQL pattern '%' || needle || '%'
Contains(hay, needle) ==
  \E i \in 0..(Len(hay) - Len(needle)) :
     SubSeq(hay, i + 1, i + Len(needle)) = needle

\* LOWER(col) LIKE LOWER('%' || needle || '%')
Like(col, needle) ==
  Contains(Lower(col), Lower(needle))

(***************************************************************************)
(* The reference store the resolver reads: the tables loinc_concept,       *)
(* lis_mapping, concept_synonym and nci_concept, rows in rowid order.      *)
(* One lis_mapping row points at a code that has no loinc_concept row.     *)
(***************************************************************************)
loinc_concept ==
  << [loinc_code |-> "6690-2",
      component |-> <<"L", "e", "u", "k", "o", "c", "y", "t", "e", "s">>,
      long_common_name |-> <<"W", "h", "i", "t", "e", " ", "B", "l", "o", "o", "d", " ", "C", "e", "l", "l", " ", "C", "o", "u", "n", "t">>,
      short_name |-> <<"W", "B", "C">>],
     [loinc_code |-> "718-7",
      component |-> <<"H", "e", "m", "o", "g", "l", "o", "b", "i", "n">>,
      long_common_name |-> <<"H", "e", "m", "o", "g", "l", "o", "b", "i", "n">>,
      short_name |-> <<"H", "g", "b">>] >>

lis_mapping ==
  << [source_code |-> <<"W", "B", "C">>,
      source_description |-> <<"w", "h", "i", "t", "e", " ", "c", "o", "u", "n", "t">>,
      target_loinc |-> "6690-2"],
     [source_code |-> <<"H", "G", "B">>,
      source_description |-> <<"h", "e", "m", "o", "g", "l", "o", "b", "i", "n">>,
      target_loinc |-> "718-7"],
     [source_code |-> <<"O", "L", "D">>,
      source_description |-> <<"r", "e", "t", "i", "r", "e", "d">>,
      target_loinc |-> "9999-9"] >>

concept_synonym ==
  << [loinc_code |-> "6690-2", synonym_text |-> <<"W", "h", "i", "t", "e", " ", "c", "o", "u", "n", "t">>],
     [loinc_code |-> "718-7", synonym_text |-> <<"H", "b">>] >>

nci_concept ==
  << [nci_code |-> "C64848",
      preferred_name |-> <<"H", "e", "m", "o", "g", "l", "o", "b", "i", "n">>,
      synonyms |-> <<"H", "g", "b", "|", "H", "b">>] >>

\* the inputs of resolve, confirm and reject
Texts ==
  { <<"w", "b", "c">>, <<"w", "b", "c", ".">>, <<"W", ".", "B", ".", "C">>, <<"h", "b">>, <<"z", "z", "z">> }

Codes ==
  {"6690-2", "718-7"}

\* the (text, code) pairs of confirm and reject
Feedback ==
  { <<<<"w", "b", "c">>, "6690-2">>, <<<<"w", "b", "c", ".">>, "718-7">>, <<<<"h", "b">>, "718-7">> }

\* raw texts that are empty or shorter than 2 characters once trimmed
ShortTexts ==
  { <<>>, <<" ">>, <<"h">>, <<" ", "h">> }

\* texts resolved next to feedback that names a code loinc_concept lacks:
\* 'OLD' is the source code of the lis_mapping row without a concept
ForeignTexts ==
  { <<"h", "b">>, <<"O", "L", "D">> }

Inputs ==
  Texts \cup ShortTexts \cup ForeignTexts

MinConfidences ==
  { <<0, 1>>, <<1, 2>>, <<19, 20>> }

(***************************************************************************)
(* Resolution values and the candidate strategies.                         *)
(***************************************************************************)
None ==
  [method |-> "none"]

Resolution(input_text, loinc_code, loinc_name, confidence, method, matched_term) ==
  [input_text |-> input_text, loinc_code |-> loinc_code, loinc_name |-> loinc_name,
   confidence |-> confidence, method |-> method, matched_term |-> matched_term]

HasConcept(code) ==
  \E i \in 1..Len(loinc_concept) : loinc_concept[i].loinc_code = code

\* the loinc_concept row a JOIN ... ON loinc_code attaches
Concept(code) ==
  loinc_concept[CHOOSE i \in 1..Len(loinc_concept) : loinc_concept[i].loinc_code = code]

Take(s, n) ==
  SubSeq(s, 1, IF Len(s) < n THEN Len(s) ELSE n)

\* SELECT DISTINCT: the first occurrence of every row
RECURSIVE Distinct(_)
Distinct(s) ==
  IF s = <<>> THEN <<>>
  ELSE LET init == Distinct(SubSeq(s, 1, Len(s) - 1))
           last == s[Len(s)]
       IN  IF \E i \in 1..Len(init) : init[i] = last THEN init ELSE Append(init, last)

\* lis_mapping m JOIN loinc_concept l ON m.target_loinc = l.loinc_code
MappingJoin ==
  LET Joined(m) == HasConcept(m.target_loinc)
  IN  SelectSeq(lis_mapping, Joined)

\* the exact match read from lis_mapping alone, without the JOIN
_try_exact_match_unjoined(text) ==
  LET Hit(m) == Lower(m.source_code) = Lower(text)
      rows == SelectSeq(lis_mapping, Hit)
  IN  IF rows # <<>>
        THEN Resolution(text, rows[1].target_loinc, rows[1].source_description,
                        <<1, 1>>, "exact", rows[1].source_code)
        ELSE None

_try_exact_match(text) ==
  LET Hit(m) == Lower(m.source_code) = Lower(text)
      rows == SelectSeq(MappingJoin, Hit)
  IN  IF rows # <<>>
        THEN Resolution(text, rows[1].target_loinc,
                        Concept(rows[1].target_loinc).long_common_name,
                        <<1, 1>>, "exact", rows[1].source_code)
        ELSE None

_try_fuzzy_match(normalized, expanded) ==
  LET rows == MappingJoin
      BestSim(row) ==
        LET source_norm == normalize(row.source_code)
            source_exp == expand_abbreviations(source_norm)
            sim1 == similarity(normalized, source_norm)
            sim2 == similarity(expanded, source_exp)
            sim3 == similarity(expanded,
                               normalize(Concept(row.target_loinc).long_common_name))
        IN  RMax(RMax(sim1, sim2), sim3)
      Scored(s) == [i \in 1..Len(s) |-> [row |-> s[i], best_sim |-> BestSim(s[i])]]
      Keep(x) == RLeq(<<3, 5>>, x.best_sim)
      Appended(kept) ==
        [i \in 1..Len(kept) |->
           Resolution(normalized, kept[i].row.target_loinc,
                      Concept(kept[i].row.target_loinc).long_common_name,
                      RMul(kept[i].best_sim, <<9, 10>>), "fuzzy",
                      kept[i].row.source_code)]
  IN  Appended(SelectSeq(Scored(rows), Keep))

\* the rows of the first query of _try_nci_synonyms
NciRows(expanded) ==
  LET Hit(n) == Like(n.preferred_name, expanded) \/ Like(n.synonyms, expanded)
      hits == SelectSeq(nci_concept, Hit)
  IN  Take(Distinct(hits), 20)

_try_nci_synonyms(expanded) ==
  LET rows == NciRows(expanded)
      LoincRows(row) ==
        LET Hit(l) == \/ Like(l.long_common_name, row.preferred_name)
                      \/ Like(l.component, row.preferred_name)
        IN  Take(SelectSeq(loinc_concept, Hit), 1)
      Queried(s) == [i \in 1..Len(s) |-> [row |-> s[i], loinc_rows |-> LoincRows(s[i])]]
      Found(x) == x.loinc_rows # <<>>
      Appended(found) ==
        [i \in 1..Len(found) |->
           Resolution(expanded, found[i].loinc_rows[1].loinc_code,
                      found[i].loinc_rows[1].long_common_name,
                      RMul(similarity(expanded, Lower(found[i].row.preferred_name)),
                           <<3, 4>>),
                      "synonym", found[i].row.preferred_name)]
  IN  Appended(SelectSeq(Queried(rows), Found))

_try_synonym_search(expanded) ==
  LET Hit(s) == HasConcept(s.loinc_code) /\ Like(s.synonym_text, expanded)
      hits == SelectSeq(concept_synonym, Hit)
      rows == Take(Distinct(hits), 20)
      Scored(s) ==
        [i \in 1..Len(s) |->
           [row |-> s[i], sim |-> similarity(expanded, Lower(s[i].synonym_text))]]
      Keep(x) == RLeq(<<1, 2>>, x.sim)
      Appended(kept) ==
        [i \in 1..Len(kept) |->
           Resolution(expanded, kept[i].row.loinc_code,
                      Concept(kept[i].row.loinc_code).long_common_name,
                      RMul(kept[i].sim, <<17, 20>>), "synonym",
                      kept[i].row.synonym_text)]
  IN  Appended(SelectSeq(Scored(rows), Keep))

_try_component_search(expanded) ==
  LET Hit(l) == \/ Like(l.long_common_name, expanded)
                \/ Like(l.component, expanded)
                \/ Like(l.short_name, expanded)
      rows == Take(SelectSeq(loinc_concept, Hit), 10)
      Scored(s) ==
        [i \in 1..Len(s) |->
           [row |-> s[i],
            sim |-> RMax(RMax(similarity(expanded, Lower(s[i].long_common_name)),
                              similarity(expanded, Lower(s[i].component))),
                         similarity(expanded, Lower(s[i].short_name)))]]
      Keep(x) == RLeq(<<2, 5>>, x.sim)
      Appended(kept) ==
        [i \in 1..Len(kept) |->
           Resolution(expanded, kept[i].row.loinc_code, kept[i].row.long_common_name,
                      RMul(kept[i].sim, <<4, 5>>), "component",
                      kept[i].row.long_common_name)]
  IN  Appended(SelectSeq(Scored(rows), Keep))

\* the sort without reverse=True
RECURSIVE SortByConfidence_ascending(_)
SortByConfidence_ascending(s) ==
  IF s = <<>> THEN <<>>
  ELSE LET rest == SortByConfidence_ascending(Tail(s))
           x == Head(s)
           Before(y) == RLt(y.confidence, x.confidence)
           n == Len(SelectSeq(rest, Before))
       IN  SubSeq(rest, 1, n) \o <<x>> \o SubSeq(rest, n + 1, Len(rest))

\* an ascending sort followed by reverse(), which turns ties around
RECURSIVE SortByConfidence_reversing(_)
SortByConfidence_reversing(s) ==
  IF s = <<>> THEN <<>>
  ELSE LET rest == SortByConfidence_reversing(Tail(s))
           x == Head(s)
           Before(y) == RLeq(x.confidence, y.confidence)
           n == Len(SelectSeq(rest, Before))
       IN  SubSeq(rest, 1, n) \o <<x>> \o SubSeq(rest, n + 1, Len(rest))

\* candidates.sort(key=lambda x: x.confidence, reverse=True): a stable sort
RECURSIVE SortByConfidence(_)
SortByConfidence(s) ==
  IF s = <<>> THEN <<>>
  ELSE LET rest == SortByConfidence(Tail(s))
           x == Head(s)
           Before(y) == RLt(x.confidence, y.confidence)
           n == Len(SelectSeq(rest, Before))
       IN  SubSeq(rest, 1, n) \o <<x>> \o SubSeq(rest, n + 1, Len(rest))

\* the candidate list of resolve, strategies 3 to 6 in the order they run
Candidates(normalized, expanded) ==
  _try_fuzzy_match(normalized, expanded)
    \o _try_synonym_search(expanded)
    \o _try_nci_synonyms(expanded)
    \o _try_component_search(expanded)

\* the pure parts of resolve, tabulated per input text
NormalizedOf ==
  [t \in Inputs |-> normalize(t)]

ExpandedOf ==
  [t \in Inputs |-> expand_abbreviations(NormalizedOf[t])]

ExactOf ==
  [t \in Inputs |-> _try_exact_match(t)]

CandidatesOf ==
  [t \in Inputs |-> Candidates(NormalizedOf[t], ExpandedOf[t])]

NciRowsOf ==
  [t \in Inputs |-> Len(NciRows(ExpandedOf[t]))]

(***************************************************************************)
(* The learned_mapping table: its rows in rowid order.  The columns id and *)
(* created_at, which no statement of the resolver reads or updates, are    *)
(* left out.                                                               *)
(***************************************************************************)
LearnedRow(input_text, normalized_text, loinc_code, confidence, times_confirmed, last_used) ==
  [input_text |-> input_text, normalized_text |-> normalized_text,
   loinc_code |-> loinc_code, confidence |-> confidence,
   times_confirmed |-> times_confirmed, last_used |-> last_used]

\* the rows the UNIQUE(normalized_text, loinc_code) index holds for a key
KeyRows(table, normalized, loinc_code) ==
  {i \in 1..Len(table) : /\ table[i].normalized_text = normalized
                         /\ table[i].loinc_code = loinc_code}

\* _learn as a plain INSERT into a table without the UNIQUE index
_learn_insert_only(table, original, normalized, loinc_code, confidence, t) ==
  Append(table, LearnedRow(original, normalized, loinc_code, confidence, 1, t))

\* _learn whose DO UPDATE also stores the confidence of the call
_learn_overwriting(table, original, normalized, loinc_code, confidence, t) ==
  IF KeyRows(table, normalized, loinc_code) # {}
    THEN [i \in 1..Len(table) |->
            IF i \in KeyRows(table, normalized, loinc_code)
              THEN [table[i] EXCEPT !.times_confirmed = @ + 1, !.confidence = confidence,
                                    !.last_used = t]
              ELSE table[i]]
    ELSE Append(table, LearnedRow(original, normalized, loinc_code, confidence, 1, t))

\* INSERT ... ON CONFLICT(normalized_text, loinc_code) DO UPDATE of _learn
_learn(table, original, normalized, loinc_code, confidence, t) ==
  IF KeyRows(table, normalized, loinc_code) # {}
    THEN [i \in 1..Len(table) |->
            IF i \in KeyRows(table, normalized, loinc_code)
              THEN [table[i] EXCEPT !.times_confirmed = @ + 1, !.last_used = t]
              ELSE table[i]]
    ELSE Append(table, LearnedRow(original, normalized, loinc_code, confidence, 1, t))

\* confirm as a plain INSERT into a table without the UNIQUE index
confirm_insert_only(table, text, loinc_code, t) ==
  Append(table, LearnedRow(text, normalize(text), loinc_code, <<19, 20>>, 1, t))

\* confirm without the MIN(..., 0.99) of its DO UPDATE
confirm_uncapped(table, text, loinc_code, t) ==
  LET normalized == normalize(text)
  IN  IF KeyRows(table, normalized, loinc_code) # {}
        THEN [i \in 1..Len(table) |->
                IF i \in KeyRows(table, normalized, loinc_code)
                  THEN [table[i] EXCEPT
                          !.times_confirmed = @ + 1,
                          !.confidence = RAdd(@, <<1, 20>>),
                          !.last_used = t]
                  ELSE table[i]]
        ELSE Append(table, LearnedRow(text, normalized, loinc_code, <<19, 20>>, 1, t))

\* confirm whose DO UPDATE leaves times_confirmed alone
confirm_keep_counter(table, text, loinc_code, t) ==
  LET normalized == normalize(text)
  IN  IF KeyRows(table, normalized, loinc_code) # {}
        THEN [i \in 1..Len(table) |->
                IF i \in KeyRows(table, normalized, loinc_code)
                  THEN [table[i] EXCEPT
                          !.confidence = RMin(RAdd(@, <<1, 20>>), <<99, 100>>),
                          !.last_used = t]
                  ELSE table[i]]
        ELSE Append(table, LearnedRow(text, normalized, loinc_code, <<19, 20>>, 1, t))

\* confirm as an UPDATE of the existing row, with no INSERT
confirm_update_only(table, text, loinc_code, t) ==
  LET normalized == normalize(text)
  IN  [i \in 1..Len(table) |->
         IF i \in KeyRows(table, normalized, loinc_code)
           THEN [table[i] EXCEPT
                   !.times_confirmed = @ + 1,
                   !.confidence = RMin(RAdd(@, <<1, 20>>), <<99, 100>>),
                   !.last_used = t]
           ELSE table[i]]

\* INSERT ... ON CONFLICT(normalized_text, loinc_code) DO UPDATE of confirm
confirm(table, text, loinc_code, t) ==
  LET normalized == normalize(text)
  IN  IF KeyRows(table, normalized, loinc_code) # {}
        THEN [i \in 1..Len(table) |->
                IF i \in KeyRows(table, normalized, loinc_code)
                  THEN [table[i] EXCEPT
                          !.times_confirmed = @ + 1,
                          !.confidence = RMin(RAdd(@, <<1, 20>>), <<99, 100>>),
                          !.last_used = t]
                  ELSE table[i]]
        ELSE Append(table, LearnedRow(text, normalized, loinc_code, <<19, 20>>, 1, t))

\* reject that takes one confirmation back and deletes the row only when
\* none is left
reject_decrement(table, text, loinc_code) ==
  LET normalized == normalize(text)
      Hit(row) == row.normalized_text = normalized /\ row.loinc_code = loinc_code
      Stays(row) == ~(Hit(row) /\ row.times_confirmed = 1)
      kept == SelectSeq(table, Stays)
  IN  [i \in 1..Len(kept) |->
         IF Hit(kept[i]) THEN [kept[i] EXCEPT !.times_confirmed = @ - 1] ELSE kept[i]]

\* reject whose DELETE lacks the loinc_code condition
reject_any_code(table, text, loinc_code) ==
  LET normalized == normalize(text)
      Stays(row) == row.normalized_text # normalized
  IN  SelectSeq(table, Stays)

\* DELETE FROM learned_mapping WHERE normalized_text = ? AND loinc_code = ?
reject(table, text, loinc_code) ==
  LET normalized == normalize(text)
      Stays(row) == ~(row.normalized_text = normalized /\ row.loinc_code = loinc_code)
  IN  SelectSeq(table, Stays)

\* the SELECT of _try_learned with ORDER BY times_confirmed ASC, confidence ASC
LearnedFirst_least_confirmed(table, normalized) ==
  LET rows == {i \in 1..Len(table) : /\ table[i].normalized_text = normalized
                                     /\ HasConcept(table[i].loinc_code)}
      Before(j, i) ==
        \/ table[j].times_confirmed < table[i].times_confirmed
        \/ /\ table[j].times_confirmed = table[i].times_confirmed
           /\ RLt(table[j].confidence, table[i].confidence)
  IN  {i \in rows : \A j \in rows : ~Before(j, i)}

\* the SELECT of _try_learned: the rows that can come first under
\* ORDER BY times_confirmed DESC, confidence DESC (rows that tie on both
\* columns come in an order SQL leaves open)
LearnedFirst(table, normalized) ==
  LET rows == {i \in 1..Len(table) : /\ table[i].normalized_text = normalized
                                     /\ HasConcept(table[i].loinc_code)}
      Before(j, i) ==
        \/ table[j].times_confirmed > table[i].times_confirmed
        \/ /\ table[j].times_confirmed = table[i].times_confirmed
           /\ RLt(table[i].confidence, table[j].confidence)
  IN  {i \in rows : \A j \in rows : ~Before(j, i)}

\* the UPDATE of _try_learned counting the use as a confirmation
TouchLearned_counting(table, normalized, t) ==
  [i \in 1..Len(table) |->
     IF table[i].normalized_text = normalized
       THEN [table[i] EXCEPT !.last_used = t, !.times_confirmed = @ + 1]
       ELSE table[i]]

\* UPDATE learned_mapping SET last_used = CURRENT_TIMESTAMP WHERE normalized_text = ?
TouchLearned(table, normalized, t) ==
  [i \in 1..Len(table) |->
     IF table[i].normalized_text = normalized
       THEN [table[i] EXCEPT !.last_used = t]
       ELSE table[i]]

\* the Resolution of _try_learned without the min(..., 0.99)
LearnedResolution_uncapped(row) ==
  Resolution(row.normalized_text, row.loinc_code,
             Concept(row.loinc_code).long_common_name,
             RAdd(row.confidence, Rat(row.times_confirmed * 2, 100)),
             "learned", row.normalized_text)

\* the Resolution _try_learned builds from the selected row
LearnedResolution(row) ==
  Resolution(row.normalized_text, row.loinc_code,
             Concept(row.loinc_code).long_common_name,
             RMin(RAdd(row.confidence, Rat(row.times_confirmed * 2, 100)), <<99, 100>>),
             "learned", row.normalized_text)

\* what one call did: the strategies it invoked, the SQL statements it
\* executed, how many of them read and wrote learned_mapping, and the
\* learned_mapping rows they inserted, updated and deleted
Trace(strategies, statements, learned_reads, learned_writes, inserted, updated, deleted) ==
  [strategies |-> strategies, statements |-> statements,
   learned_reads |-> learned_reads, learned_writes |-> learned_writes,
   inserted |-> inserted, updated |-> updated, deleted |-> deleted]

\* what one call of resolve did: what it returned, the table it left, whether
\* it raised, its trace and the sorted candidates it selected from
Outcome(res, table, raised, trace, pool) ==
  [result |-> res, learned |-> table, raised |-> raised, trace |-> trace, pool |-> pool]

\* the auto-learn condition without the 0.7 gate
ShouldLearn_any(learn, confidence) ==
  learn

\* line 209: self.auto_learn and best.confidence >= 0.7
ShouldLearn(learn, confidence) ==
  learn /\ RLeq(<<7, 10>>, confidence)

\* lines 204-213 of resolve without the min_confidence gate of line 207
PoolOutcome_ungated(text, normalized, candidates, nci_rows, min_confidence, table, t, learn, fail_insert, touched) ==
  LET best == candidates[1]
      ran == <<"exact", "learned", "fuzzy", "synonym", "nci", "component">>
      statements == (IF touched < 0 THEN 2 ELSE 3) + 4 + nci_rows
      writes == IF touched < 0 THEN 0 ELSE 1
      updated == IF touched < 0 THEN 0 ELSE touched
      conflict == KeyRows(table, normalized, best.loinc_code) # {}
  IN  IF candidates # <<>>
        THEN IF ShouldLearn(learn, best.confidence)
               THEN IF fail_insert
                      THEN Outcome(best, table, FALSE,
                                   Trace(ran, statements + 1, 1, writes + 1, 0, updated, 0),
                                   candidates)
                      ELSE Outcome(best,
                                   _learn(table, text, normalized, best.loinc_code,
                                          best.confidence, t),
                                   FALSE,
                                   Trace(ran, statements + 1, 1, writes + 1,
                                         IF conflict THEN 0 ELSE 1,
                                         IF conflict THEN updated + 1 ELSE updated, 0),
                                   candidates)
               ELSE Outcome(best, table, FALSE, Trace(ran, statements, 1, writes, 0, updated, 0),
                            candidates)
        ELSE Outcome(None, table, FALSE, Trace(ran, statements, 1, writes, 0, updated, 0),
                     candidates)

\* lines 204-213 of resolve: the best of the sorted candidates, the
\* min_confidence gate and the auto-learn; nci_rows is the number of rows
\* the first query of _try_nci_synonyms returned
PoolOutcome(text, normalized, candidates, nci_rows, min_confidence, table, t, learn, fail_insert, touched) ==
  LET best == candidates[1]
      ran == <<"exact", "learned", "fuzzy", "synonym", "nci", "component">>
      statements == (IF touched < 0 THEN 2 ELSE 3) + 4 + nci_rows
      writes == IF touched < 0 THEN 0 ELSE 1
      updated == IF touched < 0 THEN 0 ELSE touched
      conflict == KeyRows(table, normalized, best.loinc_code) # {}
  IN  IF candidates # <<>> /\ RLeq(min_confidence, best.confidence)
        THEN IF ShouldLearn(learn, best.confidence)
               THEN IF fail_insert
                      THEN Outcome(best, table, FALSE,
                                   Trace(ran, statements + 1, 1, writes + 1, 0, updated, 0),
                                   candidates)
                      ELSE Outcome(best,
                                   _learn(table, text, normalized, best.loinc_code,
                                          best.confidence, t),
                                   FALSE,
                                   Trace(ran, statements + 1, 1, writes + 1,
                                         IF conflict THEN 0 ELSE 1,
                                         IF conflict THEN updated + 1 ELSE updated, 0),
                                   candidates)
               ELSE Outcome(best, table, FALSE, Trace(ran, statements, 1, writes, 0, updated, 0),
                            candidates)
        ELSE Outcome(None, table, FALSE, Trace(ran, statements, 1, writes, 0, updated, 0),
                     candidates)

\* lines 191-213 of resolve: strategies 3 to 6, the sort, the
\* min_confidence gate and the auto-learn; table is learned_mapping as the
\* learned lookup left it, touched the number of rows that lookup updated
\* (-1 when it selected no row and so ran no UPDATE)
ResolvePool(text, kept, min_confidence, table, t, learn, fail_insert, touched) ==
  PoolOutcome(text, NormalizedOf[text], SortByConfidence(kept \o CandidatesOf[text]),
              NciRowsOf[text], min_confidence, table, t, learn, fail_insert, touched)

\* the variant of resolve that puts a learned candidate below min_confidence
\* into the candidate list
LearnedKept_pooled(res) ==
  <<res>>

\* lines 187-189: a learned candidate below min_confidence is dropped,
\* candidates stays the empty list of line 179
LearnedKept(res) ==
  <<>>

\* lines 186-213 of the variant of resolve that keeps the learned candidate
ResolveLearned_keeping(text, min_confidence, table, t, learn, fail_update, fail_insert) ==
  LET normalized == NormalizedOf[text]
      first == LearnedFirst(table, normalized)
      touched == Cardinality({i \in 1..Len(table) : table[i].normalized_text = normalized})
      Learned(i) ==
        LET res == LearnedResolution(table[i])
            after == TouchLearned(table, normalized, t)
        IN  IF fail_update
              THEN Outcome(None, table, TRUE,
                           Trace(<<"exact", "learned">>, 3, 1, 1, 0, 0, 0), <<>>)
            ELSE IF RLeq(min_confidence, res.confidence)
              THEN Outcome(res, after, FALSE,
                           Trace(<<"exact", "learned">>, 3, 1, 1, 0, touched, 0), <<>>)
            ELSE ResolvePool(text, LearnedKept_pooled(res), min_confidence, after, t, learn,
                             fail_insert, touched)
  IN  IF first = {}
        THEN {ResolvePool(text, <<>>, min_confidence, table, t, learn, fail_insert, -1)}
        ELSE {Learned(i) : i \in first}

\* lines 186-213 of resolve, after the exact match found nothing: the
\* learned lookup, terminal when its confidence reaches min_confidence.
\* A failing UPDATE raises out of _try_learned and out of resolve.
ResolveLearned(text, min_confidence, table, t, learn, fail_update, fail_insert) ==
  LET normalized == NormalizedOf[text]
      first == LearnedFirst(table, normalized)
      touched == Cardinality({i \in 1..Len(table) : table[i].normalized_text = normalized})
      Learned(i) ==
        LET res == LearnedResolution(table[i])
            after == TouchLearned(table, normalized, t)
        IN  IF fail_update
              THEN Outcome(None, table, TRUE,
                           Trace(<<"exact", "learned">>, 3, 1, 1, 0, 0, 0), <<>>)
            ELSE IF RLeq(min_confidence, res.confidence)
              THEN Outcome(res, after, FALSE,
                           Trace(<<"exact", "learned">>, 3, 1, 1, 0, touched, 0), <<>>)
            ELSE ResolvePool(text, LearnedKept(res), min_confidence, after, t, learn,
                             fail_insert, touched)
  IN  IF first = {}
        THEN {ResolvePool(text, <<>>, min_confidence, table, t, learn, fail_insert, -1)}
        ELSE {Learned(i) : i \in first}

\* resolve without strategy 1
resolve_skip_exact(text, min_confidence, table, t, learn, fail_update, fail_insert) ==
  ResolveLearned(text, min_confidence, table, t, learn, fail_update, fail_insert)

\* AutoResolver.resolve: the set of outcomes of one call (more than one
\* only when learned rows tie in the ORDER BY of _try_learned).  A failing
\* INSERT is swallowed in _learn.
resolve(text, min_confidence, table, t, learn, fail_update, fail_insert) ==
  LET exact == ExactOf[text]
  IN  IF exact # None
        THEN {Outcome(exact, table, FALSE, Trace(<<"exact">>, 1, 0, 0, 0, 0, 0), <<>>)}
        ELSE ResolveLearned(text, min_confidence, table, t, learn, fail_update, fail_insert)

\* the variant of resolve that keeps a learned candidate below
\* min_confidence among the candidates it sorts
resolve_keeping(text, min_confidence, table, t, learn, fail_update, fail_insert) ==
  LET exact == ExactOf[text]
  IN  IF exact # None
        THEN {Outcome(exact, table, FALSE, Trace(<<"exact">>, 1, 0, 0, 0, 0, 0), <<>>)}
        ELSE ResolveLearned_keeping(text, min_confidence, table, t, learn, fail_update,
                                    fail_insert)

(***************************************************************************)
(* The state machine: one AutoResolver on one database, its callers        *)
(* issuing resolve, confirm and reject one after the other.                *)
(***************************************************************************)
VARIABLES
  learned,     \* the learned_mapping table
  now,         \* CURRENT_TIMESTAMP
  auto_learn,  \* the constructor's auto_learn
  faulty,      \* whether writes to learned_mapping can fail
  call,        \* the most recent call and its arguments
  result,      \* what the most recent call returned
  trace,       \* what the most recent call ran
  raised,      \* whether the most recent call raised
  confirmed,   \* history: the (normalized text, code) pairs confirm was called for
  batch,       \* what the calls of the most recent batch_resolve returned, in order
  conns,       \* the connections of the concurrent callers and what each is doing
  pure,        \* a call of a pure function: its arguments and what it returned
  lab,         \* the most recent call of LabTestResolver.resolve and what it did
  rejected     \* history: the pairs reject was called for, until confirm is called for them

\* the variables the single calls of the resolver leave alone
others == <<batch, conns, pure, lab, rejected>>

vars == <<learned, now, auto_learn, faulty, call, result, trace, raised, confirmed, others>>

IdleBatch ==
  batch = <<>>

\* the number of concurrent callers, each with a connection of its own
NumProcs == 3

Procs ==
  1..NumProcs

\* a connection with no call in progress
IdleConn ==
  [pc |-> "idle", kind |-> "none", text |-> <<>>, loinc_code |-> "",
   confidence |-> <<0, 1>>, pending |-> <<>>]

IdleConns ==
  conns = [p \in Procs |-> IdleConn]

\* no pure function under test
IdlePure ==
  pure = [op |-> "none"]

\* no rejection noted
IdleRejected ==
  rejected = {}

\* no LabTestResolver in use
IdleLab ==
  lab = [op |-> "none"]

NoTrace ==
  Trace(<<>>, 0, 0, 0, 0, 0, 0)

Call(op, text, loinc_code, min_confidence) ==
  [op |-> op, text |-> text, loinc_code |-> loinc_code, min_confidence |-> min_confidence]

\* the bounds on the table: counters up to MaxTimes
WithinBounds(table) ==
  \A i \in 1..Len(table) : table[i].times_confirmed <= MaxTimes

Faults ==
  IF faulty THEN BOOLEAN ELSE {FALSE}

\* __init__ and _ensure_learning_table on a database with no learned_mapping
Init ==
  /\ learned = <<>>
  /\ now = 0
  /\ auto_learn \in BOOLEAN
  /\ faulty = FALSE
  /\ call = Call("init", <<>>, "", <<0, 1>>)
  /\ result = None
  /\ trace = NoTrace
  /\ raised = FALSE
  /\ confirmed = {}
  /\ IdleBatch
  /\ IdleConns
  /\ IdlePure
  /\ IdleLab
  /\ IdleRejected

Resolve(text, min_confidence) ==
  /\ \E fail_update \in Faults, fail_insert \in Faults :
       \E o \in resolve(text, min_confidence, learned, now, auto_learn,
                        fail_update, fail_insert) :
          /\ WithinBounds(o.learned)
          /\ learned' = o.learned
          /\ result' = o.result
          /\ raised' = o.raised
          /\ trace' = o.trace
  /\ call' = Call("resolve", text, "", min_confidence)
  /\ UNCHANGED <<now, auto_learn, faulty, confirmed, others>>

Confirm(text, loinc_code) ==
  /\ \E fail \in Faults :
       /\ learned' = IF fail THEN learned ELSE confirm(learned, text, loinc_code, now)
       /\ raised' = fail
  /\ WithinBounds(learned')
  /\ call' = Call("confirm", text, loinc_code, <<0, 1>>)
  /\ result' = None
  /\ trace' = Trace(<<>>, 1, 0, 1,
                    IF Len(learned') > Len(learned) THEN 1 ELSE 0,
                    IF raised' \/ Len(learned') > Len(learned) THEN 0 ELSE 1, 0)
  /\ confirmed' = confirmed \cup {<<normalize(text), loinc_code>>}
  /\ UNCHANGED <<now, auto_learn, faulty, others>>

Reject(text, loinc_code) ==
  /\ \E fail \in Faults :
       /\ learned' = IF fail THEN learned ELSE reject(learned, text, loinc_code)
       /\ raised' = fail
  /\ call' = Call("reject", text, loinc_code, <<0, 1>>)
  /\ result' = None
  /\ trace' = Trace(<<>>, 1, 0, 1, 0, 0, Len(learned) - Len(learned'))
  /\ UNCHANGED <<now, auto_learn, faulty, confirmed, others>>

\* the database clock moves on between calls
Tick ==
  /\ now < MaxClock
  /\ now' = now + 1
  /\ UNCHANGED <<learned, auto_learn, faulty, call, result, trace, raised, confirmed, others>>

Next ==
  \/ \E text \in Texts, min_confidence \in MinConfidences : Resolve(text, min_confidence)
  \/ \E f \in Feedback : Confirm(f[1], f[2])
  \/ \E f \in Feedback : Reject(f[1], f[2])
  \/ Tick

Spec ==
  Init /\ [][Next]_vars

(***************************************************************************)
(* Properties.                                                             *)
(***************************************************************************)
PoolMethods ==
  {"fuzzy", "synonym", "component"}

\* the steps of the three operations (Tick is the only step that changes now)
ResolveStep ==
  call'.op = "resolve" /\ now' = now

ConfirmStep(text, loinc_code) ==
  call' = Call("confirm", text, loinc_code, <<0, 1>>) /\ now' = now

RejectStep(text, loinc_code) ==
  call' = Call("reject", text, loinc_code, <<0, 1>>) /\ now' = now

SameKey(r, s) ==
  r.normalized_text = s.normalized_text /\ r.loinc_code = s.loinc_code

\* a row with its last_used column masked
Stored(row) ==
  [row EXCEPT !.last_used = 0]

\* C1: learned_mapping never holds two rows with the same
\* (normalized_text, loinc_code); repeated auto-learn and confirm update
\* the one row of the pair.
C1_OnePerPair ==
  \A i, j \in 1..Len(learned) : SameKey(learned[i], learned[j]) => i = j

\* a pair learned or confirmed more than once
C1_Witness ==
  \E i \in 1..Len(learned) : learned[i].times_confirmed >= 2

\* C2: no stored confidence exceeds 0.99, and no step lowers the stored
\* confidence of a pair whose record it keeps; so from one confirm of a
\* pair to the next, with only resolve calls in between, the stored
\* confidence never decreases.
C2_ConfirmMonotoneCapped ==
  /\ [](\A i \in 1..Len(learned) : RLeq(learned[i].confidence, <<99, 100>>))
  /\ [][\A i \in 1..Len(learned) : \A j \in 1..Len(learned') :
          SameKey(learned[i], learned'[j])
            => RLeq(learned[i].confidence, learned'[j].confidence)]_vars

\* a confirmed pair whose stored confidence reached the cap
C2_Witness ==
  \E i \in 1..Len(learned) :
     /\ learned[i].confidence = <<99, 100>>
     /\ <<learned[i].normalized_text, learned[i].loinc_code>> \in confirmed

\* C3 as claimed: the first confirm issued for a pair leaves its stored
\* confidence at 0.95; every later confirm of the pair adds 1 to the
\* counter and sets the confidence to min(previous + 0.05, 0.99).
C3_FirstConfirmIs095 ==
  [][\A f \in Feedback :
       ConfirmStep(f[1], f[2]) =>
         LET normalized == normalize(f[1])
             old == KeyRows(learned, normalized, f[2])
             new == KeyRows(learned', normalized, f[2])
         IN  IF <<normalized, f[2]>> \notin confirmed
               THEN /\ new # {}
                    /\ \A j \in new : learned'[j].confidence = <<19, 20>>
               ELSE /\ old # {}
                    /\ new # {}
                    /\ \A i \in old : \A j \in new :
                         /\ learned'[j].times_confirmed = learned[i].times_confirmed + 1
                         /\ learned'[j].confidence =
                              RMin(RAdd(learned[i].confidence, <<1, 20>>), <<99, 100>>)]_vars

\* C3 amended: a confirm of a pair that has no record creates the record
\* with confidence 0.95 and counter 1; a confirm of a pair that has a
\* record, whether a confirm or an auto-learn created it, adds exactly 1 to
\* its counter and sets its confidence to min(previous + 0.05, 0.99).
C3_ConfirmUpsert ==
  [][\A f \in Feedback :
       ConfirmStep(f[1], f[2]) =>
         LET normalized == normalize(f[1])
             old == KeyRows(learned, normalized, f[2])
             new == KeyRows(learned', normalized, f[2])
         IN  /\ new # {}
             /\ IF old = {}
                  THEN \A j \in new : /\ learned'[j].confidence = <<19, 20>>
                                      /\ learned'[j].times_confirmed = 1
                  ELSE \A i \in old : \A j \in new :
                         /\ learned'[j].times_confirmed = learned[i].times_confirmed + 1
                         /\ learned'[j].confidence =
                              RMin(RAdd(learned[i].confidence, <<1, 20>>), <<99, 100>>)]_vars

\* the first confirm of a pair that auto-learn had stored at 0.85 has
\* left it at 0.9
C3_Witness ==
  /\ call.op = "confirm"
  /\ trace.updated = 1
  /\ \E i \in 1..Len(learned) :
        /\ SameKey(learned[i], [normalized_text |-> normalize(call.text),
                                loinc_code |-> call.loinc_code])
        /\ learned[i].confidence = <<9, 10>>
        /\ learned[i].times_confirmed = 2
        /\ learned[i].input_text = call.text

\* C4: reject(text, code) deletes the row of (normalize(text), code)
\* whatever its counter and confidence and leaves every other row as it
\* was; the resolve of a text with that normalized form that follows the
\* reject does not return method 'learned' with that code.
C4_RejectPurges ==
  /\ [][\A f \in Feedback :
          RejectStep(f[1], f[2]) =>
            LET Other(row) == ~(row.normalized_text = normalize(f[1])
                                /\ row.loinc_code = f[2])
            IN  learned' = SelectSeq(learned, Other)]_vars
  /\ [][(call.op = "reject" /\ call'.op = "resolve"
          /\ normalize(call'.text) = normalize(call.text))
          => ~(result'.method = "learned" /\ result'.loinc_code = call.loinc_code)]_vars

\* a reject has deleted the row of a confirmed pair and left in place the
\* row of the same normalized text and another code
C4_Witness ==
  /\ call.op = "reject"
  /\ trace.deleted = 1
  /\ <<normalize(call.text), call.loinc_code>> \in confirmed
  /\ KeyRows(learned, normalize(call.text), call.loinc_code) = {}
  /\ \E i \in 1..Len(learned) :
        /\ learned[i].normalized_text = normalize(call.text)
        /\ learned[i].loinc_code # call.loinc_code

\* C5: reject(text, code) of a pair that has no row raises nothing and
\* leaves learned_mapping as it was.
C5_RejectAbsentNoop ==
  /\ [](call.op = "reject" => ~raised)
  /\ [][\A f \in Feedback :
          (RejectStep(f[1], f[2]) /\ KeyRows(learned, normalize(f[1]), f[2]) = {})
            => learned' = learned]_vars

\* a reject that found no row to delete, while a row of the same
\* normalized text and another code is stored
C5_Witness ==
  /\ call.op = "reject"
  /\ trace.deleted = 0
  /\ ~raised
  /\ \E i \in 1..Len(learned) :
        /\ learned[i].normalized_text = normalize(call.text)
        /\ learned[i].loinc_code # call.loinc_code

\* C6 as claimed: confirm(text, code) of a pair that was never learned
\* leaves learned_mapping as it was.
C6_ConfirmAbsentNoop ==
  [][\A f \in Feedback :
       (/\ ConfirmStep(f[1], f[2])
        /\ KeyRows(learned, normalize(f[1]), f[2]) = {}
        /\ <<normalize(f[1]), f[2]>> \notin confirmed)
         => learned' = learned]_vars

\* C6 amended: confirm(text, code) of a pair that has no row raises
\* nothing and appends one row for the pair, with the raw text, confidence
\* 0.95 and counter 1, leaving every other row as it was.
C6_ConfirmAbsentInserts ==
  /\ [](call.op = "confirm" => ~raised)
  /\ [][\A f \in Feedback :
          (ConfirmStep(f[1], f[2]) /\ KeyRows(learned, normalize(f[1]), f[2]) = {})
            => learned' = Append(learned,
                                 [input_text |-> f[1],
                                  normalized_text |-> normalize(f[1]),
                                  loinc_code |-> f[2],
                                  confidence |-> <<19, 20>>,
                                  times_confirmed |-> 1,
                                  last_used |-> now])]_vars

\* a confirm has inserted the row of a pair that resolve had not learned
C6_Witness ==
  /\ call.op = "confirm"
  /\ trace.inserted = 1
  /\ ~auto_learn
  /\ \E i \in 1..Len(learned) :
        /\ learned[i].input_text = call.text
        /\ learned[i].loinc_code = call.loinc_code
        /\ learned[i].confidence = <<19, 20>>
        /\ learned[i].times_confirmed = 1

\* whether the raw text equals, case-insensitively, the source_code of a
\* lis_mapping row whose target_loinc is a loinc_concept
HasExactMatch ==
  [text \in Texts |->
     \E i \in 1..Len(lis_mapping) :
        /\ Lower(lis_mapping[i].source_code) = Lower(text)
        /\ \E j \in 1..Len(loinc_concept) :
              loinc_concept[j].loinc_code = lis_mapping[i].target_loinc]

\* C7: a resolve of a text that has an exact match returns confidence 1.0
\* and method 'exact' for every min_confidence, after one statement on the
\* reference store: no other strategy runs, and learned_mapping is neither
\* read nor written.
C7_ExactIsTerminal ==
  /\ []((call.op = "resolve" /\ HasExactMatch[call.text])
          => /\ result # None
             /\ result.method = "exact"
             /\ result.confidence = <<1, 1>>
             /\ trace.strategies = <<"exact">>
             /\ trace.statements = 1
             /\ trace.learned_reads = 0
             /\ trace.learned_writes = 0)
  /\ [][(ResolveStep /\ HasExactMatch[call'.text]) => learned' = learned]_vars

\* an exact resolution of a text whose case differs from the shorthand's,
\* at a min_confidence no other strategy reaches, while learned_mapping
\* holds a row for the normalized text
C7_Witness ==
  /\ call.op = "resolve"
  /\ result # None
  /\ result.method = "exact"
  /\ result.matched_term # call.text
  /\ call.min_confidence = <<19, 20>>
  /\ \E i \in 1..Len(learned) : learned[i].normalized_text = normalize(call.text)

\* the confidences of the candidates strategies 3 to 6 produce for a text
PoolConfidences(text) ==
  {CandidatesOf[text][i].confidence : i \in 1..Len(CandidatesOf[text])}

\* C8: a resolve that is settled by neither the exact nor the learned
\* strategy returns a candidate of the pool whose confidence is the
\* maximum of the pool, if that maximum is at least min_confidence, and
\* no-match otherwise; and no Resolution returned, by any strategy, has a
\* confidence below min_confidence.
C8_BestOfPool ==
  (call.op = "resolve" /\ ~raised) =>
     /\ result # None => RLeq(call.min_confidence, result.confidence)
     /\ (result = None \/ result.method \in PoolMethods) =>
          LET pool == CandidatesOf[call.text]
              reaching == {c \in PoolConfidences(call.text) :
                             RLeq(call.min_confidence, c)}
          IN  IF reaching # {}
                THEN /\ result # None
                     /\ \E i \in 1..Len(pool) : pool[i] = result
                     /\ \A c \in PoolConfidences(call.text) : RLeq(c, result.confidence)
                ELSE result = None

\* the candidate returned is not the first the strategies produced
C8_Witness ==
  /\ call.op = "resolve"
  /\ result # None
  /\ result.method \in PoolMethods
  /\ Cardinality(PoolConfidences(call.text)) >= 3
  /\ result # CandidatesOf[call.text][1]

\* C9: with auto_learn set, a resolve that returns a candidate of the pool
\* with confidence c leaves a row for (normalize(text), returned code) if
\* c >= 0.7, and if c < 0.7 it inserts no row and changes no counter and
\* no stored confidence.
C9_AutoLearnGate ==
  /\ []((/\ call.op = "resolve"
         /\ auto_learn
         /\ result # None
         /\ result.method \in PoolMethods
         /\ RLeq(<<7, 10>>, result.confidence))
          => \E i \in 1..Len(learned) :
                /\ learned[i].normalized_text = normalize(call.text)
                /\ learned[i].loinc_code = result.loinc_code)
  /\ [][(/\ ResolveStep
         /\ auto_learn
         /\ result' # None
         /\ result'.method \in PoolMethods
         /\ RLt(result'.confidence, <<7, 10>>))
          => /\ Len(learned') = Len(learned)
             /\ \A i \in 1..Len(learned) : Stored(learned'[i]) = Stored(learned[i])]_vars

\* a pool resolution at or above 0.7 has inserted its row, next to the row
\* of another pair
C9_Witness ==
  /\ call.op = "resolve"
  /\ auto_learn
  /\ result # None
  /\ result.method \in PoolMethods
  /\ RLeq(<<7, 10>>, result.confidence)
  /\ trace.inserted = 1
  /\ Len(learned) >= 2
  /\ learned[Len(learned)].input_text = call.text
  /\ learned[Len(learned)].confidence = result.confidence

\* C10 as claimed: a resolve that returns no-match, an 'exact' resolution
\* or a 'learned' resolution leaves every row of learned_mapping as it
\* was, last_used included.
C10_ResolveLeavesRows ==
  [][(ResolveStep /\ result'.method \in {"none", "exact", "learned"})
       => learned' = learned]_vars

\* C10 amended: such a resolve inserts and deletes no row and changes no
\* stored confidence and no counter; it changes last_used, and only to the
\* current timestamp, only on rows of the normalized text of the call and
\* only when its learned lookup selected a row; an 'exact' resolution
\* changes nothing.
C10_ResolveKeepsTrust ==
  [][(ResolveStep /\ result'.method \in {"none", "exact", "learned"})
       => /\ Len(learned') = Len(learned)
          /\ \A i \in 1..Len(learned) :
               /\ Stored(learned'[i]) = Stored(learned[i])
               /\ learned'[i].last_used # learned[i].last_used
                    => /\ learned'[i].last_used = now
                       /\ learned[i].normalized_text = normalize(call'.text)
                       /\ trace'.learned_reads = 1
                       /\ trace'.updated >= 1
          /\ result'.method = "exact" => learned' = learned]_vars

\* a 'learned' resolution has moved last_used of the rows of its
\* normalized text
C10_Witness ==
  /\ call.op = "resolve"
  /\ result.method = "learned"
  /\ trace.updated = 2
  /\ now > 0
  /\ \A i \in 1..Len(learned) :
        learned[i].normalized_text = normalize(call.text) => learned[i].last_used = now
  /\ \E i \in 1..Len(learned) : learned[i].last_used < now


(***************************************************************************)
(* The same resolver on a database whose writes to learned_mapping can     *)
(* fail (read-only file, lock held by another connection, full disk): a    *)
(* failing statement raises sqlite3.Error out of conn.execute.             *)
(***************************************************************************)
InitFaulty ==
  /\ learned = <<>>
  /\ now = 0
  /\ auto_learn \in BOOLEAN
  /\ faulty = TRUE
  /\ call = Call("init", <<>>, "", <<0, 1>>)
  /\ result = None
  /\ trace = NoTrace
  /\ raised = FALSE
  /\ confirmed = {}
  /\ IdleBatch
  /\ IdleConns
  /\ IdlePure
  /\ IdleLab
  /\ IdleRejected

SpecFaulty ==
  InitFaulty /\ [][Next]_vars

(***************************************************************************)
(* The resolver called with texts that are empty or shorter than 2         *)
(* characters once trimmed, between confirms and rejects.                  *)
(***************************************************************************)
NextShort ==
  \/ \E text \in ShortTexts, min_confidence \in MinConfidences : Resolve(text, min_confidence)
  \/ \E f \in Feedback : Confirm(f[1], f[2])
  \/ \E f \in Feedback : Reject(f[1], f[2])
  \/ Tick

SpecShort ==
  Init /\ [][NextShort]_vars

(***************************************************************************)
(* batch_resolve: the dict comprehension calls resolve once per element    *)
(* of texts, in order, and keeps under each key what the last call for     *)
(* that text returned.                                                     *)
(***************************************************************************)
MaxBatch == 2

BatchTexts ==
  { <<"h", "b">>, <<"W", ".", "B", ".", "C">> }

\* the feedback on the texts of the batches
BatchFeedback ==
  {f \in Feedback : f[1] \in BatchTexts}

\* the lists of at most MaxBatch texts
BatchLists ==
  UNION {[1..n -> BatchTexts] : n \in 0..MaxBatch}

AddTrace(s, u) ==
  Trace(s.strategies \o u.strategies, s.statements + u.statements,
        s.learned_reads + u.learned_reads, s.learned_writes + u.learned_writes,
        s.inserted + u.inserted, s.updated + u.updated, s.deleted + u.deleted)

\* the runs of the calls resolve(texts[1]), resolve(texts[2]), ...: what
\* each call returned, the table and the clock they leave, whether one of
\* them raised (which ends the comprehension)
RECURSIVE BatchRuns(_, _, _, _, _, _)
BatchRuns(texts, min_confidence, table, t, learn, faults) ==
  IF texts = <<>>
    THEN {[results |-> <<>>, learned |-> table, now |-> t, raised |-> FALSE,
           trace |-> NoTrace]}
    ELSE UNION {
           IF o.raised
             THEN {[results |-> <<>>, learned |-> o.learned, now |-> t, raised |-> TRUE,
                    trace |-> o.trace]}
             ELSE {[results |-> <<o.result>> \o rest.results, learned |-> rest.learned,
                    now |-> rest.now, raised |-> rest.raised,
                    trace |-> AddTrace(o.trace, rest.trace)] :
                   rest \in UNION {BatchRuns(Tail(texts), min_confidence, o.learned, u,
                                             learn, faults) :
                                   u \in {v \in {t, t + 1} : v <= MaxClock}}} :
           o \in UNION {resolve(Head(texts), min_confidence, table, t, learn,
                                fail_update, fail_insert) :
                        fail_update \in faults, fail_insert \in faults}}

\* the calls of batch_resolve
batch_resolve(texts, min_confidence, table, t, learn, faults) ==
  BatchRuns(texts, min_confidence, table, t, learn, faults)

\* the dict of the comprehension: a later value replaces an earlier one
\* under the same key
BatchDict(texts, results) ==
  [x \in {texts[i] : i \in 1..Len(results)} |->
     results[CHOOSE i \in 1..Len(results) :
               /\ texts[i] = x
               /\ \A j \in (i + 1)..Len(results) : texts[j] # x]]

BatchResolve(texts, min_confidence) ==
  /\ \E run \in batch_resolve(texts, min_confidence, learned, now, auto_learn, Faults) :
       /\ WithinBounds(run.learned)
       /\ learned' = run.learned
       /\ now' = run.now
       /\ raised' = run.raised
       /\ trace' = run.trace
       /\ batch' = run.results
       /\ result' = IF run.raised THEN None ELSE BatchDict(texts, run.results)
  /\ call' = Call("batch_resolve", texts, "", min_confidence)
  /\ UNCHANGED <<auto_learn, faulty, confirmed, conns, pure, lab, rejected>>

NextBatch ==
  \/ \E texts \in BatchLists, min_confidence \in MinConfidences :
        BatchResolve(texts, min_confidence)
  \/ \E f \in BatchFeedback : Confirm(f[1], f[2])
  \/ \E f \in BatchFeedback : Reject(f[1], f[2])
  \/ Tick

SpecBatch ==
  Init /\ [][NextBatch]_vars

(***************************************************************************)
(* Concurrent callers of _learn and confirm, each on a connection of its   *)
(* own to the one database.  conn.execute runs the INSERT ... ON CONFLICT  *)
(* as one statement under the database's write lock, which the connection  *)
(* holds until conn.commit; a statement that finds the lock taken waits.   *)
(***************************************************************************)
\* the arguments resolve passes to _learn: the text, the code and the
\* confidence of the best candidate
LearnArgs ==
  { <<<<"h", "b">>, "718-7", <<17, 20>>>>, <<<<"w", "b", "c", ".">>, "6690-2", <<9, 10>>>> }

\* the confirmations of the pairs that are also auto-learned
ConcFeedback ==
  {f \in Feedback : \E a \in LearnArgs : normalize(a[1]) = normalize(f[1]) /\ a[2] = f[2]}

\* a connection executing its statement without the write lock
HoldsNoLock_ignored(p) ==
  TRUE

\* no other connection has executed a statement it has yet to commit
HoldsNoLock(p) ==
  \A q \in Procs \ {p} : conns[q].pc # "executed"

\* the INSERT ... ON CONFLICT DO UPDATE of the call, applied to the table
Upsert(c, table, t) ==
  IF c.kind = "learn"
    THEN _learn(table, c.text, normalize(c.text), c.loinc_code, c.confidence, t)
    ELSE confirm(table, c.text, c.loinc_code, t)

\* a caller enters _learn
CallLearn(p, a) ==
  /\ conns[p].pc = "idle"
  /\ conns' = [conns EXCEPT ![p] = [pc |-> "called", kind |-> "learn", text |-> a[1],
                                     loinc_code |-> a[2], confidence |-> a[3],
                                     pending |-> <<>>]]
  /\ UNCHANGED <<learned, now, auto_learn, faulty, call, result, trace, raised, confirmed, batch, pure, lab, rejected>>

\* a caller enters confirm
CallConfirm(p, f) ==
  /\ conns[p].pc = "idle"
  /\ conns' = [conns EXCEPT ![p] = [pc |-> "called", kind |-> "confirm", text |-> f[1],
                                     loinc_code |-> f[2], confidence |-> <<19, 20>>,
                                     pending |-> <<>>]]
  /\ UNCHANGED <<learned, now, auto_learn, faulty, call, result, trace, raised, confirmed, batch, pure, lab, rejected>>

\* self.conn.execute(INSERT ... ON CONFLICT ...)
Execute(p) ==
  /\ conns[p].pc = "called"
  /\ HoldsNoLock(p)
  /\ conns' = [conns EXCEPT ![p].pc = "executed",
                            ![p].pending = Upsert(conns[p], learned, now)]
  /\ UNCHANGED <<learned, now, auto_learn, faulty, call, result, trace, raised, confirmed, batch, pure, lab, rejected>>

\* self.conn.commit()
Commit(p) ==
  /\ conns[p].pc = "executed"
  /\ learned' = conns[p].pending
  /\ conns' = [conns EXCEPT ![p].pc = "done", ![p].pending = <<>>]
  /\ UNCHANGED <<now, auto_learn, faulty, call, result, trace, raised, confirmed, batch, pure, lab, rejected>>

NextConc ==
  \/ \E p \in Procs, a \in LearnArgs : CallLearn(p, a)
  \/ \E p \in Procs, f \in ConcFeedback : CallConfirm(p, f)
  \/ \E p \in Procs : Execute(p)
  \/ \E p \in Procs : Commit(p)
  \/ Tick

SpecConc ==
  Init /\ [][NextConc]_vars

(***************************************************************************)
(* similarity called on two strings, in both orders.                       *)
(***************************************************************************)
MaxLen == 3

Alphabet ==
  {"a", "b", "C"}

\* the strings of at most MaxLen characters
Strings ==
  UNION {[1..n -> Alphabet] : n \in 0..MaxLen}

\* the resolver of Init, with nothing learned and no call made
InitQuiet ==
  /\ learned = <<>>
  /\ now = 0
  /\ auto_learn = TRUE
  /\ faulty = FALSE
  /\ call = Call("init", <<>>, "", <<0, 1>>)
  /\ result = None
  /\ trace = NoTrace
  /\ raised = FALSE
  /\ confirmed = {}
  /\ IdleBatch
  /\ IdleConns
  /\ IdleRejected

InitSim ==
  /\ InitQuiet
  /\ IdleLab
  /\ IdleRejected
  /\ pure \in {[op |-> "similarity", called |-> FALSE, a |-> a, b |-> b,
                 ab |-> <<0, 1>>, ba |-> <<0, 1>>] : a \in Strings, b \in Strings}

\* similarity(a, b) and similarity(b, a)
Similarity ==
  /\ pure.op = "similarity"
  /\ ~pure.called
  /\ pure' = [pure EXCEPT !.called = TRUE,
                          !.ab = similarity(pure.a, pure.b),
                          !.ba = similarity(pure.b, pure.a)]
  /\ UNCHANGED <<learned, now, auto_learn, faulty, call, result, trace, raised, confirmed, batch, conns, lab, rejected>>

NextSim ==
  Similarity

SpecSim ==
  InitSim /\ [][NextSim]_vars

(***************************************************************************)
(* normalize called on a string.                                           *)
(***************************************************************************)
NormAlphabet ==
  {"A", "b", " ", "\t", ".", "'", "-"}

NormStrings ==
  UNION {[1..n -> NormAlphabet] : n \in 0..MaxLen}

InitNorm ==
  /\ InitQuiet
  /\ IdleLab
  /\ IdleRejected
  /\ pure \in {[op |-> "normalize", called |-> FALSE, text |-> text, out |-> <<>>] :
                text \in NormStrings}

\* normalize(text)
Normalize ==
  /\ pure.op = "normalize"
  /\ ~pure.called
  /\ pure' = [pure EXCEPT !.called = TRUE, !.out = normalize(pure.text)]
  /\ UNCHANGED <<learned, now, auto_learn, faulty, call, result, trace, raised, confirmed, batch, conns, lab, rejected>>

NextNorm ==
  Normalize

SpecNorm ==
  InitNorm /\ [][NextNorm]_vars

(***************************************************************************)
(* The resolver with a note of the pairs that were rejected and not        *)
(* confirmed since.                                                        *)
(***************************************************************************)
RejectTexts ==
  { <<"h", "b">>, <<"w", "b", "c", ".">> }

RejectFeedback ==
  {f \in Feedback : f[1] \in RejectTexts}

\* Confirm, which also strikes the pair from the rejected ones
ConfirmNoted(text, loinc_code) ==
  /\ \E fail \in Faults :
       /\ learned' = IF fail THEN learned ELSE confirm(learned, text, loinc_code, now)
       /\ raised' = fail
  /\ WithinBounds(learned')
  /\ call' = Call("confirm", text, loinc_code, <<0, 1>>)
  /\ result' = None
  /\ trace' = Trace(<<>>, 1, 0, 1,
                    IF Len(learned') > Len(learned) THEN 1 ELSE 0,
                    IF raised' \/ Len(learned') > Len(learned) THEN 0 ELSE 1, 0)
  /\ confirmed' = confirmed \cup {<<normalize(text), loinc_code>>}
  /\ rejected' = IF raised' THEN rejected ELSE rejected \ {<<normalize(text), loinc_code>>}
  /\ UNCHANGED <<now, auto_learn, faulty, batch, conns, pure, lab>>

\* Reject, which also notes the pair
RejectNoted(text, loinc_code) ==
  /\ \E fail \in Faults :
       /\ learned' = IF fail THEN learned ELSE reject(learned, text, loinc_code)
       /\ raised' = fail
  /\ call' = Call("reject", text, loinc_code, <<0, 1>>)
  /\ result' = None
  /\ trace' = Trace(<<>>, 1, 0, 1, 0, 0, Len(learned) - Len(learned'))
  /\ rejected' = IF raised' THEN rejected ELSE rejected \cup {<<normalize(text), loinc_code>>}
  /\ UNCHANGED <<now, auto_learn, faulty, confirmed, batch, conns, pure, lab>>

NextReject ==
  \/ \E text \in RejectTexts, min_confidence \in MinConfidences : Resolve(text, min_confidence)
  \/ \E f \in RejectFeedback : ConfirmNoted(f[1], f[2])
  \/ \E f \in RejectFeedback : RejectNoted(f[1], f[2])
  \/ Tick

SpecReject ==
  Init /\ [][NextReject]_vars

(***************************************************************************)
(* LabTestResolver: normalize, the three steps of resolve and the queries  *)
(* they run on loinc_concept and concept_synonym.                          *)
(***************************************************************************)
ABBREVIATION_MAP ==
  << <<<<"h", "g", "b">>,
       <<"h", "e", "m", "o", "g", "l", "o", "b", "i", "n">>>>,
     <<<<"h", "b">>,
       <<"h", "e", "m", "o", "g", "l", "o", "b", "i", "n">>>>,
     <<<<"w", "b", "c">>,
       <<"w", "h", "i", "t", "e", " ", "b", "l", "o", "o", "d", " ", "c", "e", "l", "l">>>>,
     <<<<"r", "b", "c">>,
       <<"r", "e", "d", " ", "b", "l", "o", "o", "d", " ", "c", "e", "l", "l">>>>,
     <<<<"p", "l", "t">>,
       <<"p", "l", "a", "t", "e", "l", "e", "t">>>>,
     <<<<"p", "l", "t", "s">>,
       <<"p", "l", "a", "t", "e", "l", "e", "t">>>>,
     <<<<"h", "c", "t">>,
       <<"h", "e", "m", "a", "t", "o", "c", "r", "i", "t">>>>,
     <<<<"m", "c", "v">>,
       <<"m", "e", "a", "n", " ", "c", "o", "r", "p", "u", "s", "c", "u", "l", "a", "r", " ", "v", "o", "l", "u", "m", "e">>>>,
     <<<<"m", "c", "h">>,
       <<"m", "e", "a", "n", " ", "c", "o", "r", "p", "u", "s", "c", "u", "l", "a", "r", " ", "h", "e", "m", "o", "g", "l", "o", "b", "i", "n">>>>,
     <<<<"m", "c", "h", "c">>,
       <<"m", "e", "a", "n", " ", "c", "o", "r", "p", "u", "s", "c", "u", "l", "a", "r", " ", "h", "e", "m", "o", "g", "l", "o", "b", "i", "n", " ", "c", "o", "n", "c", "e", "n", "t", "r", "a", "t", "i", "o", "n">>>>,
     <<<<"r", "d", "w">>,
       <<"r", "e", "d", " ", "c", "e", "l", "l", " ", "d", "i", "s", "t", "r", "i", "b", "u", "t", "i", "o", "n", " ", "w", "i", "d", "t", "h">>>>,
     <<<<"m", "p", "v">>,
       <<"m", "e", "a", "n", " ", "p", "l", "a", "t", "e", "l", "e", "t", " ", "v", "o", "l", "u", "m", "e">>>>,
     <<<<"a", "s", "t">>,
       <<"a", "s", "p", "a", "r", "t", "a", "t", "e", " ", "a", "m", "i", "n", "o", "t", "r", "a", "n", "s", "f", "e", "r", "a", "s", "e">>>>,
     <<<<"a", "l", "t">>,
       <<"a", "l", "a", "n", "i", "n", "e", " ", "a", "m", "i", "n", "o", "t", "r", "a", "n", "s", "f", "e", "r", "a", "s", "e">>>>,
     <<<<"a", "l", "p">>,
       <<"a", "l", "k", "a", "l", "i", "n", "e", " ", "p", "h", "o", "s", "p", "h", "a", "t", "a", "s", "e">>>>,
     <<<<"a", "l", "k", " ", "p", "h", "o", "s">>,
       <<"a", "l", "k", "a", "l", "i", "n", "e", " ", "p", "h", "o", "s", "p", "h", "a", "t", "a", "s", "e">>>>,
     <<<<"g", "g", "t">>,
       <<"g", "a", "m", "m", "a", " ", "g", "l", "u", "t", "a", "m", "y", "l", " ", "t", "r", "a", "n", "s", "f", "e", "r", "a", "s", "e">>>>,
     <<<<"l", "d", "h">>,
       <<"l", "a", "c", "t", "a", "t", "e", " ", "d", "e", "h", "y", "d", "r", "o", "g", "e", "n", "a", "s", "e">>>>,
     <<<<"b", "u", "n">>,
       <<"b", "l", "o", "o", "d", " ", "u", "r", "e", "a", " ", "n", "i", "t", "r", "o", "g", "e", "n">>>>,
     <<<<"c", "r">>,
       <<"c", "r", "e", "a", "t", "i", "n", "i", "n", "e">>>>,
     <<<<"c", "r", "e", "a", "t">>,
       <<"c", "r", "e", "a", "t", "i", "n", "i", "n", "e">>>>,
     <<<<"e", "g", "f", "r">>,
       <<"g", "l", "o", "m", "e", "r", "u", "l", "a", "r", " ", "f", "i", "l", "t", "r", "a", "t", "i", "o", "n", " ", "r", "a", "t", "e">>>>,
     <<<<"g", "f", "r">>,
       <<"g", "l", "o", "m", "e", "r", "u", "l", "a", "r", " ", "f", "i", "l", "t", "r", "a", "t", "i", "o", "n", " ", "r", "a", "t", "e">>>>,
     <<<<"t", "s", "h">>,
       <<"t", "h", "y", "r", "o", "i", "d", " ", "s", "t", "i", "m", "u", "l", "a", "t", "i", "n", "g", " ", "h", "o", "r", "m", "o", "n", "e">>>>,
     <<<<"t", "3">>,
       <<"t", "r", "i", "i", "o", "d", "o", "t", "h", "y", "r", "o", "n", "i", "n", "e">>>>,
     <<<<"t", "4">>,
       <<"t", "h", "y", "r", "o", "x", "i", "n", "e">>>>,
     <<<<"f", "t", "3">>,
       <<"f", "r", "e", "e", " ", "t", "r", "i", "i", "o", "d", "o", "t", "h", "y", "r", "o", "n", "i", "n", "e">>>>,
     <<<<"f", "t", "4">>,
       <<"f", "r", "e", "e", " ", "t", "h", "y", "r", "o", "x", "i", "n", "e">>>>,
     <<<<"h", "b", "a", "1", "c">>,
       <<"h", "e", "m", "o", "g", "l", "o", "b", "i", "n", " ", "a", "1", "c">>>>,
     <<<<"a", "1", "c">>,
       <<"h", "e", "m", "o", "g", "l", "o", "b", "i", "n", " ", "a", "1", "c">>>>,
     <<<<"p", "s", "a">>,
       <<"p", "r", "o", "s", "t", "a", "t", "e", " ", "s", "p", "e", "c", "i", "f", "i", "c", " ", "a", "n", "t", "i", "g", "e", "n">>>>,
     <<<<"b", "n", "p">>,
       <<"b", "-", "t", "y", "p", "e", " ", "n", "a", "t", "r", "i", "u", "r", "e", "t", "i", "c", " ", "p", "e", "p", "t", "i", "d", "e">>>>,
     <<<<"c", "r", "p">>,
       <<"c", "-", "r", "e", "a", "c", "t", "i", "v", "e", " ", "p", "r", "o", "t", "e", "i", "n">>>>,
     <<<<"e", "s", "r">>,
       <<"e", "r", "y", "t", "h", "r", "o", "c", "y", "t", "e", " ", "s", "e", "d", "i", "m", "e", "n", "t", "a", "t", "i", "o", "n", " ", "r", "a", "t", "e">>>>,
     <<<<"p", "t">>,
       <<"p", "r", "o", "t", "h", "r", "o", "m", "b", "i", "n", " ", "t", "i", "m", "e">>>>,
     <<<<"i", "n", "r">>,
       <<"i", "n", "t", "e", "r", "n", "a", "t", "i", "o", "n", "a", "l", " ", "n", "o", "r", "m", "a", "l", "i", "z", "e", "d", " ", "r", "a", "t", "i", "o">>>>,
     <<<<"p", "t", "t">>,
       <<"p", "a", "r", "t", "i", "a", "l", " ", "t", "h", "r", "o", "m", "b", "o", "p", "l", "a", "s", "t", "i", "n", " ", "t", "i", "m", "e">>>>,
     <<<<"a", "p", "t", "t">>,
       <<"a", "c", "t", "i", "v", "a", "t", "e", "d", " ", "p", "a", "r", "t", "i", "a", "l", " ", "t", "h", "r", "o", "m", "b", "o", "p", "l", "a", "s", "t", "i", "n", " ", "t", "i", "m", "e">>>>,
     <<<<"n", "a">>,
       <<"s", "o", "d", "i", "u", "m">>>>,
     <<<<"k">>,
       <<"p", "o", "t", "a", "s", "s", "i", "u", "m">>>>,
     <<<<"c", "l">>,
       <<"c", "h", "l", "o", "r", "i", "d", "e">>>>,
     <<<<"c", "o", "2">>,
       <<"b", "i", "c", "a", "r", "b", "o", "n", "a", "t", "e">>>>,
     <<<<"h", "c", "o", "3">>,
       <<"b", "i", "c", "a", "r", "b", "o", "n", "a", "t", "e">>>>,
     <<<<"c", "a">>,
       <<"c", "a", "l", "c", "i", "u", "m">>>>,
     <<<<"m", "g">>,
       <<"m", "a", "g", "n", "e", "s", "i", "u", "m">>>>,
     <<<<"p", "h", "o", "s">>,
       <<"p", "h", "o", "s", "p", "h", "o", "r", "u", "s">>>>,
     <<<<"p", "h", "o", "s", "p", "h", "a", "t", "e">>,
       <<"p", "h", "o", "s", "p", "h", "o", "r", "u", "s">>>>,
     <<<<"u", "a">>,
       <<"u", "r", "i", "n", "a", "l", "y", "s", "i", "s">>>>,
     <<<<"t", "r", "i", "g">>,
       <<"t", "r", "i", "g", "l", "y", "c", "e", "r", "i", "d", "e", "s">>>>,
     <<<<"c", "h", "o", "l">>,
       <<"c", "h", "o", "l", "e", "s", "t", "e", "r", "o", "l">>>>,
     <<<<"h", "d", "l">>,
       <<"h", "i", "g", "h", " ", "d", "e", "n", "s", "i", "t", "y", " ", "l", "i", "p", "o", "p", "r", "o", "t", "e", "i", "n", " ", "c", "h", "o", "l", "e", "s", "t", "e", "r", "o", "l">>>>,
     <<<<"l", "d", "l">>,
       <<"l", "o", "w", " ", "d", "e", "n", "s", "i", "t", "y", " ", "l", "i", "p", "o", "p", "r", "o", "t", "e", "i", "n", " ", "c", "h", "o", "l", "e", "s", "t", "e", "r", "o", "l">>>>,
     <<<<"v", "l", "d", "l">>,
       <<"v", "e", "r", "y", " ", "l", "o", "w", " ", "d", "e", "n", "s", "i", "t", "y", " ", "l", "i", "p", "o", "p", "r", "o", "t", "e", "i", "n", " ", "c", "h", "o", "l", "e", "s", "t", "e", "r", "o", "l">>>>,
     <<<<"b", "i", "l", "i">>,
       <<"b", "i", "l", "i", "r", "u", "b", "i", "n">>>>,
     <<<<"t", "b", "i", "l", "i">>,
       <<"t", "o", "t", "a", "l", " ", "b", "i", "l", "i", "r", "u", "b", "i", "n">>>>,
     <<<<"d", "b", "i", "l", "i">>,
       <<"d", "i", "r", "e", "c", "t", " ", "b", "i", "l", "i", "r", "u", "b", "i", "n">>>>,
     <<<<"a", "l", "b">>,
       <<"a", "l", "b", "u", "m", "i", "n">>>>,
     <<<<"g", "l", "o", "b">>,
       <<"g", "l", "o", "b", "u", "l", "i", "n">>>>,
     <<<<"t", "p">>,
       <<"t", "o", "t", "a", "l", " ", "p", "r", "o", "t", "e", "i", "n">>>>,
     <<<<"t", "i", "b", "c">>,
       <<"t", "o", "t", "a", "l", " ", "i", "r", "o", "n", " ", "b", "i", "n", "d", "i", "n", "g", " ", "c", "a", "p", "a", "c", "i", "t", "y">>>>,
     <<<<"t", "s", "a", "t">>,
       <<"i", "r", "o", "n", " ", "s", "a", "t", "u", "r", "a", "t", "i", "o", "n">>>>,
     <<<<"f", "e", "r", "r">>,
       <<"f", "e", "r", "r", "i", "t", "i", "n">>>>,
     <<<<"b", "1", "2">>,
       <<"v", "i", "t", "a", "m", "i", "n", " ", "b", "1", "2">>>>,
     <<<<"f", "o", "l", "a", "t", "e">>,
       <<"f", "o", "l", "i", "c", " ", "a", "c", "i", "d">>>>,
     <<<<"v", "i", "t", "d">>,
       <<"v", "i", "t", "a", "m", "i", "n", " ", "d">>>>,
     <<<<"2", "5", "o", "h", "d">>,
       <<"2", "5", "-", "h", "y", "d", "r", "o", "x", "y", "v", "i", "t", "a", "m", "i", "n", " ", "d">>>> >>

Digits ==
  <<"0", "1", "2", "3", "4", "5", "6", "7", "8", "9">>

\* the characters the regular expression class \w matches
WordChars ==
  {LowerCase[i] : i \in 1..Len(LowerCase)} \cup {UpperCase[i] : i \in 1..Len(UpperCase)}
    \cup {Digits[i] : i \in 1..Len(Digits)} \cup {"_"}

\* \b between the characters i and i + 1 of s (i from 0 to Len(s))
Boundary(s, i) ==
  (i >= 1 /\ s[i] \in WordChars) # (i < Len(s) /\ s[i + 1] \in WordChars)

\* re.sub(r"\b" + abbrev + r"\b", expansion, text) on text from offset i
RECURSIVE SubWord(_, _, _, _)
SubWord(text, i, abbrev, expansion) ==
  IF i + Len(abbrev) > Len(text)
    THEN SubSeq(text, i + 1, Len(text))
    ELSE IF /\ SubSeq(text, i + 1, i + Len(abbrev)) = abbrev
            /\ Boundary(text, i)
            /\ Boundary(text, i + Len(abbrev))
      THEN expansion \o SubWord(text, i + Len(abbrev), abbrev, expansion)
      ELSE <<text[i + 1]>> \o SubWord(text, i + 1, abbrev, expansion)

\* the loop over ABBREVIATION_MAP.items(), from entry k on
RECURSIVE ExpandFrom(_, _)
ExpandFrom(text, k) ==
  IF k > Len(ABBREVIATION_MAP) \/ Len(text) = 0 THEN text
  ELSE ExpandFrom(SubWord(text, 0, ABBREVIATION_MAP[k][1], ABBREVIATION_MAP[k][2]), k + 1)

Suffixes ==
  { <<"l", "e", "v", "e", "l">>, <<"c", "o", "u", "n", "t">>, <<"t", "e", "s", "t">>, <<"p", "a", "n", "e", "l">>, <<"a", "u", "t", "o">>, <<"a", "b", "s", "o", "l", "u", "t", "e">> }

\* s matches \s*(level|count|test|panel|auto|absolute)\s*$
IsSuffixTail(s) ==
  \E w \in Suffixes :
     /\ Len(LStrip(s)) >= Len(w)
     /\ SubSeq(LStrip(s), 1, Len(w)) = w
     /\ \A j \in (Len(w) + 1)..Len(LStrip(s)) : LStrip(s)[j] \in Whitespace

\* where the leftmost match of the suffix pattern starts
SuffixStarts(text) ==
  {i \in 0..Len(text) : IsSuffixTail(SubSeq(text, i + 1, Len(text)))}

\* re.sub(r"\s*(level|count|test|panel|auto|absolute)\s*$", "", text)
StripSuffix(text) ==
  IF SuffixStarts(text) = {} THEN text
  ELSE SubSeq(text, 1, SetMin(SuffixStarts(text)))

\* LabTestResolver.normalize
lab_normalize(text) ==
  StripSuffix(ExpandFrom(Strip(Lower(text)), 1))

\* loinc_concept with its status column, rows in rowid order
lab_concept ==
  << [loinc_code |-> "6690-2", long_common_name |-> <<"W", "h", "i", "t", "e", " ", "B", "l", "o", "o", "d", " ", "C", "e", "l", "l", " ", "C", "o", "u", "n", "t">>,
      short_name |-> <<"W", "B", "C">>, status |-> "ACTIVE"],
     [loinc_code |-> "4544-3", long_common_name |-> <<"H", "e", "m", "a", "t", "o", "c", "r", "i", "t">>,
      short_name |-> <<"H", "c", "t">>, status |-> "DEPRECATED"],
     [loinc_code |-> "718-7", long_common_name |-> <<"H", "e", "m", "o", "g", "l", "o", "b", "i", "n">>,
      short_name |-> <<"H", "g", "b">>, status |-> "ACTIVE"],
     [loinc_code |-> "4548-4", long_common_name |-> <<"H", "e", "m", "o", "g", "l", "o", "b", "i", "n", " ", "A", "1", "c">>,
      short_name |-> <<"H", "b", "A", "1", "c">>, status |-> "ACTIVE"] >>

\* the dict resolve returns
LabResult(row, confidence, method) ==
  [loinc_code |-> row.loinc_code, loinc_name |-> row.long_common_name,
   confidence |-> confidence, method |-> method]

\* the rows of concept_synonym JOIN loinc_concept whose synonym is the text
SynonymRows(test_name) ==
  {<<i, j>> \in (1..Len(concept_synonym)) \X (1..Len(lab_concept)) :
     /\ concept_synonym[i].loinc_code = lab_concept[j].loinc_code
     /\ Lower(concept_synonym[i].synonym_text) = Lower(test_name)}

\* _exact_synonym_match: LIMIT 1 without ORDER BY returns any one row
_exact_synonym_match(test_name) ==
  IF SynonymRows(test_name) = {} THEN {None}
  ELSE {LabResult(lab_concept[p[2]], <<1, 1>>, "exact_synonym") : p \in SynonymRows(test_name)}

\* the ACTIVE rows whose name contains the normalized text
NameRows(normalized) ==
  {j \in 1..Len(lab_concept) : /\ Like(lab_concept[j].long_common_name, normalized)
                                /\ lab_concept[j].status = "ACTIVE"}

\* ORDER BY LENGTH(long_common_name) LIMIT 1: any row of the least length
ShortestRows(rows) ==
  {j \in rows : \A k \in rows : Len(lab_concept[j].long_common_name) <= Len(lab_concept[k].long_common_name)}

\* _exact_name_match
_exact_name_match(normalized) ==
  IF NameRows(normalized) = {} THEN {None}
  ELSE {LabResult(lab_concept[j], <<9, 10>>, "exact_name") : j \in ShortestRows(NameRows(normalized))}

\* round(score, 2): the nearest hundredth, the even one of two
Round2(x) ==
  LET n == 100 * x[1]
      q == n \div x[2]
      twice == 2 * (n % x[2])
  IN  IF twice < x[2] THEN Rat(q, 100)
      ELSE IF twice > x[2] THEN Rat(q + 1, 100)
      ELSE IF q % 2 = 0 THEN Rat(q, 100) ELSE Rat(q + 1, 100)

\* the candidates of _fuzzy_match, in rowid order
FuzzyRows(normalized) ==
  LET Hit(row) == /\ row.status = "ACTIVE"
                  /\ \/ Like(row.long_common_name, Take(normalized, 4))
                     \/ Like(row.short_name, Take(normalized, 4))
  IN  Take(SelectSeq(lab_concept, Hit), 100)

\* the loop of _fuzzy_match from row k on
RECURSIVE FuzzyLoop(_, _, _, _, _, _)
FuzzyLoop(rows, k, normalized, min_confidence, best_score, best_match) ==
  IF k > Len(rows) THEN best_match
  ELSE IF /\ RLt(best_score, ratio(normalized, Lower(rows[k].long_common_name)))
          /\ RLeq(min_confidence, ratio(normalized, Lower(rows[k].long_common_name)))
    THEN FuzzyLoop(rows, k + 1, normalized, min_confidence,
                   ratio(normalized, Lower(rows[k].long_common_name)),
                   LabResult(rows[k], Round2(ratio(normalized, Lower(rows[k].long_common_name))),
                             "fuzzy"))
    ELSE FuzzyLoop(rows, k + 1, normalized, min_confidence, best_score, best_match)

_fuzzy_match(normalized, min_confidence) ==
  FuzzyLoop(FuzzyRows(normalized), 1, normalized, min_confidence, <<0, 1>>, None)

\* what a call of resolve returned and how many queries it ran
LabOutcome(returned, queries) ==
  [result |-> returned, queries |-> queries]

\* line 112 without the length test
TooShort_falsy(test_name) ==
  test_name = <<>>

\* line 112: not test_name or len(test_name.strip()) < 2
TooShort(test_name) ==
  test_name = <<>> \/ Len(Strip(test_name)) < 2

\* LabTestResolver.resolve
lab_resolve(test_name, min_confidence) ==
  IF TooShort(test_name) THEN {LabOutcome(None, 0)}
  ELSE IF _exact_synonym_match(test_name) # {None}
    THEN {LabOutcome(r, 1) : r \in _exact_synonym_match(test_name)}
  ELSE IF _exact_name_match(lab_normalize(test_name)) # {None}
    THEN {LabOutcome(r, 2) : r \in _exact_name_match(lab_normalize(test_name))}
  ELSE {LabOutcome(_fuzzy_match(lab_normalize(test_name), min_confidence), 3)}

\* the inputs of LabTestResolver.resolve
LabTexts ==
  { <<>>, <<" ">>, <<"a">>, <<" ", "k", " ">>, <<"\t", "\t">>, <<"H", "b">>, <<" ", "h", "b">>, <<"h", "g", "b">>, <<"W", "B", "C", " ", "c", "o", "u", "n", "t">>,
    <<"h", "e", "m", "o", "g", "l", "o", "b", "n">>, <<"h", "e", "m", "a", "t", "o", "c", "r", "i", "t">>, <<"h", "c", "t", " ", "l", "e", "v", "e", "l">>, <<"a", "1", "c", " ", "t", "e", "s", "t">>, <<"z", "z", "z">>, <<"c", "o", "u", "n", "t">>,
    <<"T", "e", "s", "t">> }

\* the thresholds 0, 0.05, ..., 1
LabThresholds ==
  {Rat(i, 20) : i \in 0..20}

\* what resolve returns for every input
LabOutcomes ==
  [test_name \in LabTexts, min_confidence \in LabThresholds |->
     lab_resolve(test_name, min_confidence)]

\* a LabTestResolver on the database, no call made
InitLab ==
  /\ InitQuiet
  /\ IdlePure
  /\ lab = [op |-> "init", test_name |-> <<>>, min_confidence |-> <<1, 2>>,
            result |-> None, queries |-> 0]

LabResolve(test_name, min_confidence) ==
  /\ lab.op # "none"
  /\ \E o \in LabOutcomes[test_name, min_confidence] :
       lab' = [op |-> "resolve", test_name |-> test_name, min_confidence |-> min_confidence,
               result |-> o.result, queries |-> o.queries]
  /\ UNCHANGED <<learned, now, auto_learn, faulty, call, result, trace, raised, confirmed, batch, conns, pure, rejected>>

NextLab ==
  \E test_name \in LabTexts, min_confidence \in LabThresholds :
     LabResolve(test_name, min_confidence)

SpecLab ==
  InitLab /\ [][NextLab]_vars

(***************************************************************************)
(* The ranking of resolve on its own: the candidate lists the strategies   *)
(* 3 to 6 return are inputs, the call concatenates them in the order the   *)
(* strategies run, sorts, picks the best and learns it (lines 191-213).    *)
(***************************************************************************)
\* how many candidates one strategy returns at most
MaxPerStrategy == 2

\* the confidences of the candidates: 0.68 and 0.72, which are 0.9, 0.85,
\* 0.75 and 0.8 times a similarity above the threshold of each strategy
RankConfidences ==
  { <<17, 25>>, <<18, 25>> }

\* the method each strategy stamps on its candidates; _try_nci_synonyms
\* stamps 'synonym' as _try_synonym_search does
MethodOf(strategy) ==
  IF strategy = "nci" THEN "synonym" ELSE strategy

\* the k-th candidate of a strategy, told apart by its matched_term
RankCandidate(strategy, k, confidence) ==
  Resolution(<<"h", "b">>, IF strategy = "nci" THEN "718-7" ELSE "6690-2", <<"n", "a", "m", "e">>,
             confidence, MethodOf(strategy), [i \in 1..k |-> "x"])

\* the lists a strategy may return
StrategyLists(strategy) ==
  UNION {{[k \in 1..n |-> RankCandidate(strategy, k, c[k])] : c \in [1..n -> RankConfidences]} : n \in 0..MaxPerStrategy}

InitRank ==
  /\ InitQuiet
  /\ IdleLab
  /\ pure \in {[op |-> "rank", called |-> FALSE, fuzzy |-> f, synonym |-> s, nci |-> n,
                 component |-> c, min_confidence |-> m, candidates |-> <<>>, best |-> None] :
                f \in StrategyLists("fuzzy"), s \in StrategyLists("synonym"),
                n \in StrategyLists("nci"), c \in StrategyLists("component"),
                m \in {<<0, 1>>, <<18, 25>>}}

\* lines 191-213 of resolve on the lists of the strategies
Rank ==
  /\ pure.op = "rank"
  /\ ~pure.called
  /\ LET candidates == pure.fuzzy \o pure.synonym \o pure.nci \o pure.component
         outcome == PoolOutcome(<<"h", "b">>, <<"h", "b">>, SortByConfidence(candidates), Len(pure.nci),
                                pure.min_confidence, learned, now, auto_learn, FALSE, -1)
     IN  /\ pure' = [pure EXCEPT !.called = TRUE, !.candidates = candidates,
                                 !.best = outcome.result]
         /\ learned' = outcome.learned
  /\ UNCHANGED <<now, auto_learn, faulty, call, result, trace, raised, confirmed, batch, conns, lab, rejected>>

NextRank ==
  Rank

SpecRank ==
  InitRank /\ [][NextRank]_vars

(***************************************************************************)
(* resolve observed next to the variant that keeps a learned candidate     *)
(* below min_confidence: each call notes the sorted candidates it selected *)
(* from and what either version of resolve can do from the state.          *)
(***************************************************************************)
\* what a caller observes of a call: the result, the table left behind,
\* whether the call raised and what it ran
Observed(outcomes) ==
  {[result |-> o.result, learned |-> o.learned, raised |-> o.raised, trace |-> o.trace] :
     o \in outcomes}

ResolveObserved(text, min_confidence) ==
  /\ \E o \in resolve(text, min_confidence, learned, now, auto_learn, FALSE, FALSE) :
        /\ WithinBounds(o.learned)
        /\ learned' = o.learned
        /\ result' = o.result
        /\ raised' = o.raised
        /\ trace' = o.trace
        /\ pure' = [op |-> "resolve", pool |-> o.pool,
                    coded |-> Observed(resolve(text, min_confidence, learned, now,
                                               auto_learn, FALSE, FALSE)),
                    keeping |-> Observed(resolve_keeping(text, min_confidence, learned, now,
                                                         auto_learn, FALSE, FALSE))]
  /\ call' = Call("resolve", text, "", min_confidence)
  /\ UNCHANGED <<now, auto_learn, faulty, confirmed, batch, conns, lab, rejected>>

NextPool ==
  \/ \E text \in RejectTexts, min_confidence \in MinConfidences : ResolveObserved(text, min_confidence)
  \/ \E f \in RejectFeedback : Confirm(f[1], f[2])
  \/ \E f \in RejectFeedback : Reject(f[1], f[2])

SpecPool ==
  Init /\ [][NextPool]_vars

(***************************************************************************)
(* resolve, confirm and reject from the empty table, with thresholds on    *)
(* either side of 0.72, the lowest confidence a learned lookup reports.    *)
(***************************************************************************)
RangeTexts ==
  { <<"h", "b">>, <<"w", "b", "c", ".">>, <<"W", ".", "B", ".", "C">> }

RangeFeedback ==
  {f \in Feedback : f[1] \in RangeTexts}

RangeConfidences ==
  { <<0, 1>>, <<18, 25>>, <<19, 20>> }

NextRange ==
  \/ \E text \in RangeTexts, min_confidence \in RangeConfidences : Resolve(text, min_confidence)
  \/ \E f \in RangeFeedback : Confirm(f[1], f[2])
  \/ \E f \in RangeFeedback : Reject(f[1], f[2])

SpecRange ==
  Init /\ [][NextRange]_vars

(***************************************************************************)
(* One caller that only ever calls resolve, from the empty table.          *)
(***************************************************************************)
NextResolves ==
  \/ \E text \in Texts, min_confidence \in MinConfidences : Resolve(text, min_confidence)
  \/ Tick

SpecResolves ==
  Init /\ [][NextResolves]_vars

(***************************************************************************)
(* Two callers, each an AutoResolver with a connection of its own to the   *)
(* one database, running resolve on the same text at the same time.  A     *)
(* call is the learned lookup (lines 183-189), the gathering and ranking   *)
(* of the candidates (lines 191-209) and _learn (line 210), whose INSERT   *)
(* and commit are the steps Execute and Commit.                            *)
(***************************************************************************)
Resolvers ==
  {1, 2}

\* a caller enters resolve; the callers under way resolve the same text
CallResolve(p, text, min_confidence) ==
  /\ conns[p].pc = "idle"
  /\ \A q \in Resolvers : conns[q].pc # "idle" => conns[q].text = text
  /\ conns' = [conns EXCEPT ![p] = [pc |-> "entered", kind |-> "resolve", text |-> text,
                                     loinc_code |-> "", confidence |-> <<0, 1>>,
                                     pending |-> <<>>, min_confidence |-> min_confidence]]
  /\ UNCHANGED <<learned, now, auto_learn, faulty, call, result, trace, raised, confirmed, batch, pure, lab, rejected>>

\* lines 183-189: the exact match and the learned lookup, whose UPDATE of
\* last_used takes the write lock and commits
Lookup(p) ==
  /\ conns[p].pc = "entered"
  /\ LET normalized == NormalizedOf[conns[p].text]
         first == LearnedFirst(learned, normalized)
     IN  IF ExactOf[conns[p].text] # None
           THEN /\ conns' = [conns EXCEPT ![p].pc = "done"]
                /\ UNCHANGED learned
         ELSE IF first = {}
           THEN /\ conns' = [conns EXCEPT ![p].pc = "looked"]
                /\ UNCHANGED learned
         ELSE /\ HoldsNoLock(p)
              /\ learned' = TouchLearned(learned, normalized, now)
              /\ \E i \in first :
                    conns' = [conns EXCEPT ![p].pc =
                                IF RLeq(conns[p].min_confidence,
                                        LearnedResolution(learned[i]).confidence)
                                  THEN "done" ELSE "looked"]
  /\ UNCHANGED <<now, auto_learn, faulty, call, result, trace, raised, confirmed, batch, pure, lab, rejected>>

\* lines 191-210: the candidates of the four strategies, the sort, the
\* min_confidence gate and the decision to learn the best candidate
Gather(p) ==
  /\ conns[p].pc = "looked"
  /\ LET candidates == SortByConfidence(CandidatesOf[conns[p].text])
         best == candidates[1]
     IN  IF /\ candidates # <<>>
            /\ RLeq(conns[p].min_confidence, best.confidence)
            /\ ShouldLearn(auto_learn, best.confidence)
           THEN conns' = [conns EXCEPT ![p].pc = "called", ![p].kind = "learn",
                                       ![p].loinc_code = best.loinc_code,
                                       ![p].confidence = best.confidence]
           ELSE conns' = [conns EXCEPT ![p].pc = "done"]
  /\ UNCHANGED <<learned, now, auto_learn, faulty, call, result, trace, raised, confirmed, batch, pure, lab, rejected>>

NextPar ==
  \/ \E p \in Resolvers, text \in RejectTexts, min_confidence \in MinConfidences :
        CallResolve(p, text, min_confidence)
  \/ \E p \in Resolvers : Lookup(p)
  \/ \E p \in Resolvers : Gather(p)
  \/ \E p \in Resolvers : Execute(p)
  \/ \E p \in Resolvers : Commit(p)

SpecPar ==
  Init /\ [][NextPar]_vars

(***************************************************************************)
(* resolve next to confirm calls that name a code loinc_concept lacks.     *)
(***************************************************************************)
ForeignFeedback ==
  { <<<<"h", "b">>, "9999-9">>, <<<<"h", "b">>, "718-7">>, <<<<"O", "L", "D">>, "9999-9">> }

NextForeign ==
  \/ \E text \in ForeignTexts, min_confidence \in MinConfidences : Resolve(text, min_confidence)
  \/ \E f \in ForeignFeedback : Confirm(f[1], f[2])
  \/ \E f \in ForeignFeedback : Reject(f[1], f[2])

SpecForeign ==
  Init /\ [][NextForeign]_vars

(***************************************************************************)
(* resolve next to confirm and reject calls that name two codes for the    *)
(* one text, so that learned_mapping holds several rows for it.            *)
(***************************************************************************)
SeveralTexts ==
  { <<"h", "b">>, <<"w", "b", "c", ".">> }

SeveralFeedback ==
  { <<<<"h", "b">>, "718-7">>, <<<<"h", "b">>, "6690-2">>, <<<<"w", "b", "c", ".">>, "718-7">> }

NextSeveral ==
  \/ \E text \in SeveralTexts, min_confidence \in MinConfidences : Resolve(text, min_confidence)
  \/ \E f \in SeveralFeedback : Confirm(f[1], f[2])
  \/ \E f \in SeveralFeedback : Reject(f[1], f[2])

SpecSeveral ==
  Init /\ [][NextSeveral]_vars

\* C11 as claimed: whichever write to learned_mapping fails during a
\* resolve, the call raises nothing and returns what it returns when the
\* write succeeds.
C11_WriteFailureNonFatal ==
  [][ResolveStep =>
       /\ ~raised'
       /\ \E o \in resolve(call'.text, call'.min_confidence, learned, now,
                           auto_learn, FALSE, FALSE) : o.result = result']_vars

\* C12 as claimed: a resolve of a text that is empty or shorter than 2
\* characters once trimmed returns no-match without invoking a strategy
\* and leaves learned_mapping as it was.
C12_ShortInputNoMatch ==
  [][(ResolveStep /\ Len(Strip(call'.text)) < 2)
       => /\ result' = None
          /\ trace'.strategies = <<>>
          /\ learned' = learned]_vars

\* the steps of batch_resolve on a list that holds one text twice
TwiceStep ==
  /\ call'.op = "batch_resolve"
  /\ Len(call'.text) = 2
  /\ call'.text[1] = call'.text[2]
  /\ ~raised'

\* C13 as claimed: the two resolve calls of batch_resolve([t, t], m) return
\* the same code, confidence and method, also when the first auto-learns.
C13_BatchIdempotent ==
  [][TwiceStep => batch'[1] = batch'[2]]_vars

\* the first call of the batch auto-learned its result (line 209 of resolve)
FirstLearns ==
  /\ batch'[1] # None
  /\ batch'[1].method \notin {"exact", "learned"}
  /\ auto_learn
  /\ RLeq(<<7, 10>>, batch'[1].confidence)

\* C13 amended: the second resolve of batch_resolve([t, t], m) returns the
\* same code, confidence and method as the first unless the first
\* occurrence triggers auto-learn.
C13_BatchIdempotentUnlessLearned ==
  [][(TwiceStep /\ ~FirstLearns) => batch'[2] = batch'[1]]_vars

\* a batch [t, t] whose first call found a learned row and returned it
C13_Witness ==
  /\ call.op = "batch_resolve"
  /\ Len(batch) = 2
  /\ call.text[1] = call.text[2]
  /\ batch[1] # None
  /\ batch[1] = batch[2]
  /\ batch[1].method = "learned"

\* the callers that called _learn or confirm for a key
CallsOn(normalized, loinc_code) ==
  {p \in Procs : /\ conns[p].pc # "idle"
                 /\ normalize(conns[p].text) = normalized
                 /\ conns[p].loinc_code = loinc_code}

\* every call that was made has committed
AllCompleted ==
  \A p \in Procs : conns[p].pc \in {"idle", "done"}

\* C14: after k concurrent _learn and confirm calls on the same
\* (normalized_text, loinc_code) have all completed, in any interleaving,
\* learned_mapping holds exactly one row for the key and its
\* times_confirmed is k.
C14_NoLostUpdate ==
  AllCompleted =>
    \A text \in Texts, loinc_code \in Codes :
       LET k == Cardinality(CallsOn(normalize(text), loinc_code))
           rows == KeyRows(learned, normalize(text), loinc_code)
       IN  /\ Cardinality(rows) = IF k = 0 THEN 0 ELSE 1
           /\ \A i \in rows : learned[i].times_confirmed = k

\* an auto-learn and a confirm of the same key, with a third call, have all
\* completed
C14_Witness ==
  /\ \A p \in Procs : conns[p].pc = "done"
  /\ \E p, q \in Procs : /\ conns[p].kind = "learn"
                         /\ conns[q].kind = "confirm"
                         /\ normalize(conns[p].text) = normalize(conns[q].text)
                         /\ conns[p].loinc_code = conns[q].loinc_code
  /\ \E i \in 1..Len(learned) : learned[i].times_confirmed = NumProcs

\* C15 as claimed: similarity(a, b) = similarity(b, a) for all strings a
\* and b.
C15_SimilaritySymmetric ==
  (pure.op = "similarity" /\ pure.called) => pure.ab = pure.ba

\* how often a character occurs in a string
Occurrences(s, c) ==
  Cardinality({i \in 1..Len(s) : s[i] = c})

C17_LabShortInput ==
  (lab.op = "resolve" /\ Len(Strip(lab.test_name)) < 2) =>
     lab.result = None /\ lab.queries = 0

\* resolve was called with a single character between spaces, one that is
\* an abbreviation of the resolver
C17_Witness ==
  /\ lab.op = "resolve"
  /\ Len(lab.test_name) > 1
  /\ Len(Strip(lab.test_name)) = 1
  /\ lab_normalize(lab.test_name) # Strip(lab.test_name)

\* C18 as claimed: whatever step produced it, a result resolve returns for
\* min_confidence has a confidence of at least min_confidence.
C18_LabThreshold ==
  (lab.op = "resolve" /\ lab.result # None) =>
     RLeq(lab.min_confidence, lab.result.confidence)

\* the resolve of the step returned method 'learned' for the pair
LearnedFor(pair) ==
  /\ normalize(call'.text) = pair[1]
  /\ result'.method = "learned"
  /\ result'.loinc_code = pair[2]

\* C19 as claimed: once reject(text, code) was called, and until
\* confirm(text, code) is called, no resolve reports method 'learned' with
\* that code for that text.
C19_RejectedStaysUnlearned ==
  [][ResolveStep => \A pair \in rejected : ~LearnedFor(pair)]_vars

\* C19 amended: once reject(text, code) was called, and until
\* confirm(text, code) is called, a resolve reports method 'learned' with
\* that code for that text only from a record that was re-created before
\* the call; a resolve re-creates the record only when auto-learn is on and
\* it returns that code for that text with a confidence of at least 0.7,
\* and with auto-learn off no resolve re-creates it.
C19_RelearnedOnlyByAutoLearn ==
  [][ResolveStep =>
       \A pair \in rejected :
          /\ LearnedFor(pair) => KeyRows(learned, pair[1], pair[2]) # {}
          /\ (KeyRows(learned', pair[1], pair[2]) # {} /\ KeyRows(learned, pair[1], pair[2]) = {})
                => /\ auto_learn
                   /\ normalize(call'.text) = pair[1]
                   /\ result'.method \notin {"none", "exact", "learned"}
                   /\ result'.loinc_code = pair[2]
                   /\ RLeq(<<7, 10>>, result'.confidence)
          /\ ~auto_learn => KeyRows(learned', pair[1], pair[2]) = {}]_vars

\* a resolve answered from the learned row of a pair that was rejected and
\* not confirmed since
C19_Witness ==
  /\ call.op = "resolve"
  /\ result.method = "learned"
  /\ <<normalize(call.text), result.loinc_code>> \in rejected

\* min(stored confidence + 0.02 * times_confirmed, 0.99)
Reported(row) ==
  RMin(RAdd(row.confidence, Rat(2 * row.times_confirmed, 100)), <<99, 100>>)

\* C20: when the text has no exact match and the learned lookup selects a
\* row, the confidence reported for it is min(stored confidence + 0.02 *
\* times_confirmed, 0.99), which is below 1.0; exactly when it is at least
\* min_confidence the resolve returns it with method 'learned' after
\* strategies 1 and 2 alone, inserts nothing and leaves every stored
\* confidence and counter as it was; otherwise strategies 3 to 6 run and
\* the result is not 'learned'.
C20_LearnedConfidence ==
  [][(/\ ResolveStep
      /\ call'.text \in Texts
      /\ ~HasExactMatch[call'.text]
      /\ LearnedFirst(learned, NormalizedOf[call'.text]) # {})
       => \E i \in LearnedFirst(learned, NormalizedOf[call'.text]) :
             /\ RLt(Reported(learned[i]), <<1, 1>>)
             /\ IF RLeq(call'.min_confidence, Reported(learned[i]))
                  THEN /\ result'.method = "learned"
                       /\ result'.loinc_code = learned[i].loinc_code
                       /\ result'.confidence = Reported(learned[i])
                       /\ trace'.strategies = <<"exact", "learned">>
                       /\ trace'.inserted = 0
                       /\ Len(learned') = Len(learned)
                       /\ \A j \in 1..Len(learned) : Stored(learned'[j]) = Stored(learned[j])
                  ELSE /\ result'.method # "learned"
                       /\ trace'.strategies = <<"exact", "learned", "fuzzy", "synonym", "nci", "component">>]_vars

\* a 'learned' resolution whose confidence is the cap 0.99, from a row
\* whose stored confidence plus 0.02 per confirmation exceeds it
C20_Witness ==
  /\ call.op = "resolve"
  /\ result.method = "learned"
  /\ result.confidence = <<99, 100>>
  /\ \E i \in 1..Len(learned) :
        /\ learned[i].normalized_text = normalize(call.text)
        /\ learned[i].loinc_code = result.loinc_code
        /\ RLt(<<99, 100>>, RAdd(learned[i].confidence, Rat(2 * learned[i].times_confirmed, 100)))

(***************************************************************************)
(* Claims C21 to C30.                                                      *)
(***************************************************************************)
\* the commit of a _learn call by connection p
LearnCommits(p) ==
  /\ conns[p].pc = "executed"
  /\ conns[p].kind = "learn"
  /\ conns'[p].pc = "done"

\* C21: _learn is an upsert keyed by (normalized_text, loinc_code): on an
\* absent key it appends a row with the confidence of the call and
\* times_confirmed 1; on a present key it adds exactly 1 to times_confirmed
\* and leaves the stored confidence as it was, also on a row that confirm
\* created or boosted; no other row changes.
C21_LearnUpsert ==
  [][\A p \in Procs :
       LearnCommits(p) =>
         LET normalized == normalize(conns[p].text)
             rows == KeyRows(learned, normalized, conns[p].loinc_code)
         IN  IF rows = {}
               THEN /\ Len(learned') = Len(learned) + 1
                    /\ SubSeq(learned', 1, Len(learned)) = learned
                    /\ Stored(learned'[Len(learned')]) =
                         LearnedRow(conns[p].text, normalized, conns[p].loinc_code,
                                    conns[p].confidence, 1, 0)
               ELSE /\ Len(learned') = Len(learned)
                    /\ \A i \in 1..Len(learned) :
                         IF i \in rows
                           THEN /\ learned'[i].times_confirmed = learned[i].times_confirmed + 1
                                /\ learned'[i].confidence = learned[i].confidence
                                /\ learned'[i].input_text = learned[i].input_text
                                /\ SameKey(learned'[i], learned[i])
                           ELSE learned'[i] = learned[i]]_vars

\* a _learn call has completed on a row that two confirm calls had created
\* and boosted to 0.99: the counter is 3, the confidence still 0.99
C21_Witness ==
  /\ \A p \in Procs : conns[p].pc = "done"
  /\ \E p \in Procs : conns[p].kind = "learn"
  /\ \E i \in 1..Len(learned) :
        /\ learned[i].times_confirmed = NumProcs
        /\ learned[i].confidence = <<99, 100>>

\* the rank of a method in the priority synonym > component > fuzzy
StrategyPriority(method) ==
  CASE method = "synonym" -> 1
    [] method = "component" -> 2
    [] method = "fuzzy" -> 3

\* the candidates of the pool with the maximum confidence
TopCandidates(candidates) ==
  {i \in 1..Len(candidates) :
     \A j \in 1..Len(candidates) : RLeq(candidates[j].confidence, candidates[i].confidence)}

\* the candidate the priority synonym > component > fuzzy picks among those
\* of maximum confidence, the first encountered within the strategy
Preferred(candidates) ==
  LET top == TopCandidates(candidates)
      best_priority == SetMin({StrategyPriority(candidates[i].method) : i \in top})
  IN  candidates[SetMin({i \in top : StrategyPriority(candidates[i].method) = best_priority})]

\* C22 as claimed: when several pool candidates share the maximum
\* confidence, resolve returns the one of the strategy that comes first in
\* the priority synonym > component > fuzzy, and within that strategy the
\* one encountered first.
C22_TiePriority ==
  (pure.op = "rank" /\ pure.called /\ pure.best # None) =>
    pure.best = Preferred(pure.candidates)

\* C22, amended: when several pool candidates share the maximum confidence,
\* resolve returns the one encountered first, the strategies running in the
\* order fuzzy, synonym, NCI synonym, component: the priority is
\* fuzzy > synonym > component.
C22_TieRunOrder ==
  (pure.op = "rank" /\ pure.called /\ pure.best # None) =>
    /\ pure.candidates = pure.fuzzy \o pure.synonym \o pure.nci \o pure.component
    /\ pure.best = pure.candidates[SetMin(TopCandidates(pure.candidates))]

\* a fuzzy, a synonym and a component candidate tied at the maximum and the
\* fuzzy one was returned
C22_Witness ==
  /\ pure.op = "rank"
  /\ pure.called
  /\ pure.best # None
  /\ pure.best.method = "fuzzy"
  /\ \E i, j \in TopCandidates(pure.candidates) :
        /\ pure.candidates[i].method = "synonym"
        /\ pure.candidates[j].method = "component"

\* a resolve call whose learned lookup selected a row and fell through to
\* the later strategies, its confidence being below min_confidence
FellThrough ==
  /\ call'.op = "resolve"
  /\ pure'.op = "resolve"
  /\ ExactOf[call'.text] = None
  /\ LearnedFirst(learned, NormalizedOf[call'.text]) # {}
  /\ Len(trace'.strategies) > 2

\* C23 as claimed: when the learned match is below min_confidence, the
\* learned candidate is a member of the pool resolve selects from.
C23_LearnedKeptInPool ==
  [][FellThrough =>
       \E i \in 1..Len(pure'.pool) : pure'.pool[i].method = "learned"]_vars

\* C23, amended: when the learned match is below min_confidence, the
\* cascade falls through and the learned candidate is discarded: the pool
\* resolve selects from holds the candidates of the fuzzy, synonym and
\* component strategies only, and the result is one of them or None.
C23_LearnedDiscarded ==
  [][FellThrough =>
       /\ pure'.pool = SortByConfidence(CandidatesOf[call'.text])
       /\ \A i \in 1..Len(pure'.pool) : pure'.pool[i].method \in {"fuzzy", "synonym", "component"}
       /\ \/ result' = None
          \/ /\ result' = pure'.pool[1]
             /\ RLeq(call'.min_confidence, result'.confidence)]_vars

\* a call fell through with a learned row whose boosted confidence beats
\* every candidate of the later strategies, and returned None
C23_Witness ==
  /\ pure.op = "resolve"
  /\ call.op = "resolve"
  /\ Len(trace.strategies) > 2
  /\ pure.pool # <<>>
  /\ result = None
  /\ \E i \in 1..Len(learned) :
        /\ learned[i].normalized_text = NormalizedOf[call.text]
        /\ RLt(LearnedResolution(learned[i]).confidence, call.min_confidence)
        /\ RLt(pure.pool[1].confidence, LearnedResolution(learned[i]).confidence)

InRange(table, confirmations) ==
  \A i \in 1..Len(table) :
     /\ table[i].times_confirmed >= 1
     /\ RLeq(<<7, 10>>, table[i].confidence)
     /\ RLeq(table[i].confidence, <<99, 100>>)
     /\ <<table[i].normalized_text, table[i].loinc_code>> \notin confirmations =>
          RLeq(table[i].confidence, <<9, 10>>)
     /\ HasConcept(table[i].loinc_code) =>
          /\ RLeq(<<18, 25>>, LearnedResolution(table[i]).confidence)
          /\ RLeq(LearnedResolution(table[i]).confidence, <<99, 100>>)

\* C25: from the empty table, after every resolve, confirm and reject call
\* every learned_mapping row has times_confirmed >= 1 and a confidence
\* within [0.7, 0.99] (within [0.7, 0.9] when only auto-learn wrote it), so
\* that a learned lookup reports a confidence within [0.72, 0.99] and is
\* returned by every resolve call with min_confidence <= 0.72 that has no
\* exact match and a learned row for its text.
C25_LearnedRange ==
  [][/\ InRange(learned', confirmed')
     /\ ( /\ ResolveStep
          /\ RLeq(call'.min_confidence, <<18, 25>>)
          /\ ExactOf[call'.text] = None
          /\ LearnedFirst(learned, NormalizedOf[call'.text]) # {} ) =>
            /\ result' # None
            /\ result'.method = "learned"
            /\ RLeq(<<18, 25>>, result'.confidence)
            /\ RLeq(result'.confidence, <<99, 100>>)]_vars

\* a resolve call at min_confidence 0.72 returned a learned candidate of a
\* row that only auto-learn had written, while another row stands at 0.99
C25_Witness ==
  /\ call.op = "resolve"
  /\ call.min_confidence = <<18, 25>>
  /\ result # None
  /\ result.method = "learned"
  /\ <<result.matched_term, result.loinc_code>> \notin confirmed
  /\ \E i \in 1..Len(learned) : learned[i].confidence = <<99, 100>>

\* the best candidate of the pool of a text
BestOf(text) ==
  SortByConfidence(CandidatesOf[text])[1]

\* C26: after any series of resolve calls alone from the empty table there
\* is at most one learned_mapping row per normalized text, its
\* times_confirmed is 1 and its confidence is that of the pool candidate it
\* was learned from; no resolve call takes the DO UPDATE branch of _learn:
\* a call either leaves the rows as they are (last_used apart) or appends
\* the row of its result.
C26_ResolveLearnsOnce ==
  [][ResolveStep =>
       /\ \A i, j \in 1..Len(learned') :
             learned'[i].normalized_text = learned'[j].normalized_text => i = j
       /\ \A i \in 1..Len(learned') :
             /\ learned'[i].times_confirmed = 1
             /\ learned'[i].confidence = BestOf(learned'[i].input_text).confidence
             /\ learned'[i].loinc_code = BestOf(learned'[i].input_text).loinc_code
       /\ \A i \in 1..Len(learned) : Stored(learned'[i]) = Stored(learned[i])
       /\ \/ Len(learned') = Len(learned)
          \/ /\ Len(learned') = Len(learned) + 1
             /\ result' # None
             /\ Stored(learned'[Len(learned')]) =
                  LearnedRow(call'.text, NormalizedOf[call'.text], result'.loinc_code,
                             result'.confidence, 1, 0)]_vars

\* with two rows learned, a resolve call found the row of its text below
\* min_confidence, ran the later strategies and returned None
C26_Witness ==
  /\ call.op = "resolve"
  /\ Len(learned) = 2
  /\ Len(trace.strategies) > 2
  /\ result = None
  /\ \E i \in 1..Len(learned) : learned[i].normalized_text = NormalizedOf[call.text]

\* both callers have returned from resolve
BothDone ==
  \A p \in Resolvers : conns[p].pc = "done"

\* the tables the two calls leave when one runs after the other, in either
\* order, from the empty table
SequentialTables ==
  LET text == conns[1].text
      Run(first, second) ==
        UNION {{o2.learned : o2 \in resolve(text, second, o1.learned, now, auto_learn,
                                            FALSE, FALSE)} :
                 o1 \in resolve(text, first, <<>>, now, auto_learn, FALSE, FALSE)}
  IN  Run(conns[1].min_confidence, conns[2].min_confidence)
        \cup Run(conns[2].min_confidence, conns[1].min_confidence)

\* C27 as claimed: whatever the interleaving of two resolve calls on the
\* same text, learned_mapping ends as one of the two sequential orders of
\* the calls leaves it.
C27_Serializable ==
  BothDone => learned \in SequentialTables

\* C27, amended: whatever the interleaving of two resolve calls on the same
\* text, learned_mapping ends as one of the two sequential orders leaves it,
\* except that times_confirmed of the learned row may be one higher: it is 2
\* when both callers ran their learned lookup before either committed its
\* _learn.
C27_SerializableUpToCounter ==
  BothDone =>
    \E s \in SequentialTables :
       /\ Len(learned) = Len(s)
       /\ \A i \in 1..Len(s) :
             /\ [learned[i] EXCEPT !.times_confirmed = s[i].times_confirmed] = s[i]
             /\ learned[i].times_confirmed \in {s[i].times_confirmed, s[i].times_confirmed + 1}

\* both callers missed the learned lookup, both ran _learn and the row
\* stands at times_confirmed 2
C27_Witness ==
  /\ BothDone
  /\ \A p \in Resolvers : conns[p].kind = "learn"
  /\ Len(learned) = 1
  /\ learned[1].times_confirmed = 2

\* C28: every Resolution resolve returns carries the loinc_code of a
\* loinc_concept row, and that row's long_common_name, also after confirm
\* was called with a code loinc_concept lacks and for a text whose
\* lis_mapping row points at a missing concept.
C28_ResultHasConcept ==
  [][(ResolveStep /\ result' # None) =>
       /\ HasConcept(result'.loinc_code)
       /\ result'.loinc_name = Concept(result'.loinc_code).long_common_name]_vars

\* resolve returned a learned candidate while the row of its text with the
\* most confirmations names a code loinc_concept lacks
C28_Witness ==
  /\ call.op = "resolve"
  /\ result # None
  /\ result.method = "learned"
  /\ \E i \in 1..Len(learned) :
        /\ learned[i].normalized_text = NormalizedOf[call.text]
        /\ ~HasConcept(learned[i].loinc_code)
        /\ \A j \in 1..Len(learned) : learned[j].times_confirmed <= learned[i].times_confirmed
        /\ \E j \in 1..Len(learned) : learned[j].times_confirmed < learned[i].times_confirmed

\* the confidence a learned lookup reports for a row
Boosted(row) ==
  RMin(RAdd(row.confidence, Rat(row.times_confirmed * 2, 100)), <<99, 100>>)

\* the rows learned for the text of a resolve call that has no exact match,
\* their codes being loinc_concept rows
LearnedRowsOf(text) ==
  IF ExactOf[text] # None
    THEN {}
    ELSE {i \in 1..Len(learned) : /\ learned[i].normalized_text = NormalizedOf[text]
                                  /\ HasConcept(learned[i].loinc_code)}

\* C29 as claimed: when the text has no exact match and some row learned for
\* it, its code a loinc_concept row, has a boosted confidence of at least
\* min_confidence, resolve returns a 'learned' resolution with a confidence
\* of at least min_confidence.
C29_AnyLearnedReturned ==
  [][ResolveStep =>
       \A i \in LearnedRowsOf(call'.text) :
          RLeq(call'.min_confidence, Boosted(learned[i])) =>
            /\ result' # None
            /\ result'.method = "learned"
            /\ RLeq(call'.min_confidence, result'.confidence)]_vars

\* C29, amended: when the text has no exact match and the row learned for
\* it that has the highest times_confirmed, and of those the highest stored
\* confidence, has a boosted confidence of at least min_confidence, resolve
\* returns a 'learned' resolution with a confidence of at least
\* min_confidence, also when several codes have been learned for the text.
C29_TopLearnedReturned ==
  [][ResolveStep =>
       \A i \in LearnedRowsOf(call'.text) :
          ( /\ \A j \in LearnedRowsOf(call'.text) :
                  \/ learned[j].times_confirmed < learned[i].times_confirmed
                  \/ /\ learned[j].times_confirmed = learned[i].times_confirmed
                     /\ RLeq(learned[j].confidence, learned[i].confidence)
            /\ RLeq(call'.min_confidence, Boosted(learned[i])) ) =>
            /\ result' # None
            /\ result'.method = "learned"
            /\ RLeq(call'.min_confidence, result'.confidence)]_vars

\* with two codes learned for the text, resolve returned the one with more
\* confirmations at min_confidence 0.95, which the other does not reach
C29_Witness ==
  /\ call.op = "resolve"
  /\ call.min_confidence = <<19, 20>>
  /\ result # None
  /\ result.method = "learned"
  /\ \E i, j \in 1..Len(learned) :
        /\ learned[i].normalized_text = NormalizedOf[call.text]
        /\ learned[j].normalized_text = NormalizedOf[call.text]
        /\ learned[i].loinc_code = result.loinc_code
        /\ learned[j].loinc_code # result.loinc_code
        /\ learned[j].times_confirmed < learned[i].times_confirmed
        /\ RLt(Boosted(learned[j]), call.min_confidence)

\* C30 as claimed: whenever LabTestResolver.resolve returns a result with
\* method 'exact_name', the normalized input is not empty and is a
\* substring of the lower-cased long_common_name of the returned concept;
\* an input that is only a suffix word does not resolve by exact_name.
C30_ExactNameSubstring ==
  (lab.op = "resolve" /\ lab.result # None /\ lab.result.method = "exact_name") =>
     /\ lab_normalize(lab.test_name) # <<>>
     /\ Contains(Lower(lab.result.loinc_name), lab_normalize(lab.test_name))
====
